---- MODULE Spec2Model ----
(***************************************************************************)
(* Model of the python-ml-service core: the MLEnsemble predictor           *)
(* (models.py) and the Backtester trading simulation (backtesting.py).     *)
(*                                                                         *)
(* Money, share counts and returns are exact rationals [n, d] (d > 0, in   *)
(* lowest terms); the source computes them in binary floating point.       *)
(* Predicted returns are integers in units of 1e-6, member predictions in  *)
(* units of 1e-4, prices are integers.                                     *)
(***************************************************************************)
EXTENDS Integers, Sequences, FiniteSets, TLC

(***************************************************************************)
(* Bounds of the model                                                     *)
(***************************************************************************)
\* largest number of feature rows of X_test in a run over the full input
\* alphabet (bars 0 .. MaxRows-2 are evaluated)
MaxRows == 4
\* largest number of feature rows of X_test in a run over a flat market
MaxLongRows == 12
\* largest number of bullish rows met while flat in one run (entries per run)
MaxBuys == 2
\* largest number of entries of a ledger handed to _calculate_metrics
MaxLedger == 3
\* largest number of bars a price history has beyond the 200 required
MaxExtraBars == 3
\* largest number of rows of a feature table
MaxTableRows == 5

(***************************************************************************)
(* Exact rational arithmetic                                               *)
(***************************************************************************)
Abs(x) == IF x < 0 THEN -x ELSE x

RECURSIVE GCD(_, _)
GCD(a, b) == IF b = 0 THEN a ELSE GCD(b, a % b)

Rat(n, d) ==
    LET g == GCD(Abs(n), Abs(d))
        s == IF d < 0 THEN -1 ELSE 1
    IN  [n |-> s * (n \div g), d |-> s * (d \div g)]

RInt(k) == [n |-> k, d |-> 1]
RZero == RInt(0)
ROne == RInt(1)

\* cross-cancelling product: keeps the intermediate values small
RMul(a, b) ==
    IF a.n = 0 \/ b.n = 0 THEN RZero
    ELSE LET g1 == GCD(Abs(a.n), b.d)
             g2 == GCD(Abs(b.n), a.d)
         IN  [n |-> (a.n \div g1) * (b.n \div g2),
              d |-> (a.d \div g2) * (b.d \div g1)]

RInv(a) == IF a.n < 0 THEN [n |-> -a.d, d |-> -a.n] ELSE [n |-> a.d, d |-> a.n]
RDiv(a, b) == RMul(a, RInv(b))
RNeg(a) == [n |-> -a.n, d |-> a.d]

RAdd(a, b) ==
    IF a.n = 0 THEN b
    ELSE IF b.n = 0 THEN a
    ELSE LET g == GCD(a.d, b.d)
         IN  Rat(a.n * (b.d \div g) + b.n * (a.d \div g), (a.d \div g) * b.d)

RSub(a, b) == RAdd(a, RNeg(b))
RSign(a) == IF a.n > 0 THEN 1 ELSE IF a.n < 0 THEN -1 ELSE 0
RPos(a) == a.n > 0
RLt(a, b) == RSign(RSub(a, b)) < 0
RLe(a, b) == RSign(RSub(a, b)) <= 0
RAbs(a) == [n |-> Abs(a.n), d |-> a.d]

RECURSIVE RSum(_)
RSum(s) == IF s = <<>> THEN RZero ELSE RAdd(Head(s), RSum(Tail(s)))

\* floor of the square root of a natural number
RECURSIVE ISqrtIn(_, _, _)
ISqrtIn(x, lo, hi) ==
    IF lo >= hi THEN lo
    ELSE LET mid == (lo + hi + 1) \div 2
         IN  IF mid * mid <= x THEN ISqrtIn(x, mid, hi) ELSE ISqrtIn(x, lo, mid - 1)
ISqrt(x) == ISqrtIn(x, 0, IF x < 46340 THEN x ELSE 46340)


(***************************************************************************)
(* Floating-point values: a finite number (an exact rational), NaN or a    *)
(* signed infinity, combined as numpy combines float64 values (division by *)
(* zero does not raise)                                                    *)
(***************************************************************************)
XNum(q) == [k |-> "num", q |-> q]
XInt(c) == XNum(RInt(c))
XNaN == [k |-> "nan", q |-> RZero]
XInf(sign) == [k |-> "inf", q |-> RInt(sign)]
XIsNum(a) == a.k = "num"
XSignOf(a) == RSign(a.q)

XNeg(a) == IF a.k = "nan" THEN a ELSE [k |-> a.k, q |-> RNeg(a.q)]

XAdd(a, b) ==
    IF a.k = "nan" \/ b.k = "nan" THEN XNaN
    ELSE IF a.k = "inf" /\ b.k = "inf" THEN (IF a.q = b.q THEN a ELSE XNaN)
    ELSE IF a.k = "inf" THEN a
    ELSE IF b.k = "inf" THEN b
    ELSE XNum(RAdd(a.q, b.q))

XSub(a, b) == XAdd(a, XNeg(b))

XMul(a, b) ==
    IF a.k = "nan" \/ b.k = "nan" THEN XNaN
    ELSE IF a.k = "num" /\ b.k = "num" THEN XNum(RMul(a.q, b.q))
    ELSE IF XSignOf(a) = 0 \/ XSignOf(b) = 0 THEN XNaN
    ELSE XInf(XSignOf(a) * XSignOf(b))

\* the denominators of the model are never negative zero
XDiv(a, b) ==
    IF a.k = "nan" \/ b.k = "nan" THEN XNaN
    ELSE IF a.k = "inf" THEN (IF b.k = "inf" THEN XNaN
                              ELSE XInf(XSignOf(a) * (IF XSignOf(b) < 0 THEN -1 ELSE 1)))
    ELSE IF b.k = "inf" THEN XInt(0)
    ELSE IF XSignOf(b) = 0 THEN (IF XSignOf(a) = 0 THEN XNaN ELSE XInf(XSignOf(a)))
    ELSE XNum(RDiv(a.q, b.q))

\* a > 0 of Python: False when a is NaN
XPos(a) == a.k # "nan" /\ XSignOf(a) > 0

\* np.log: the logarithm of a positive finite number is kept as the number
\* it is the logarithm of (kind "log"); log(0) = -inf, log(x < 0) = NaN
XLog(a) ==
    IF a.k = "nan" THEN XNaN
    ELSE IF a.k = "inf" THEN (IF XSignOf(a) > 0 THEN a ELSE XNaN)
    ELSE IF XSignOf(a) = 0 THEN XInf(-1)
    ELSE IF XSignOf(a) < 0 THEN XNaN
    ELSE [k |-> "log", q |-> a.q]

\* pd.isna(v) or np.isinf(v)
XIsNaNOrInf(a) == a.k \in {"nan", "inf"}


(***************************************************************************)
(* feature_engineering.py: extract_features                                *)
(*                                                                         *)
(* A price history is the sequence of its closing prices (bar j of the     *)
(* source is element j + 1); a benchmark is [given, ok, close]: given =    *)
(* spy_df is not None, ok = the frame has a 'close' column.  Stock and     *)
(* benchmark frames share their index labels.  The feature vector carries  *)
(* the features computed from closing prices alone.                        *)
(***************************************************************************)
\* the hard-coded minimum number of data points
MinHistory == 200
\* the window of the rolling beta
BetaWindow == 21

NoBenchmark == [given |-> FALSE, ok |-> TRUE, close |-> <<>>]
Benchmark(close) == [given |-> TRUE, ok |-> TRUE, close |-> close]
BrokenBenchmark(close) == [given |-> TRUE, ok |-> FALSE, close |-> close]

\* s.iloc[:stop]
SliceTo(s, stop) ==
    LET st == IF stop < 0
              THEN (IF stop + Len(s) < 0 THEN 0 ELSE stop + Len(s))
              ELSE (IF stop > Len(s) THEN Len(s) ELSE stop)
    IN  SubSeq(s, 1, st)

\* s.iloc[-k:]
LastOf(s, k) == IF Len(s) <= k THEN s ELSE SubSeq(s, Len(s) - k + 1, Len(s))

\* s.iloc[-k]
At(s, k) == s[Len(s) + 1 - k]

\* data = df.copy() if index == -1 else df.iloc[:index + 1].copy()
Window(frame, index) == IF index = -1 THEN frame ELSE SliceTo(frame, index + 1)

\* close.pct_change()
PctChange(close) ==
    [j \in 1..Len(close) |->
        IF j = 1 THEN XNaN
        ELSE XSub(XDiv(XInt(close[j]), XInt(close[j - 1])), XInt(1))]

\* np.log(close.iloc[-1] / close.iloc[-(k + 1)]) if len(close) > k else 0
LogReturn(close, k) ==
    IF Len(close) > k
    THEN XLog(XDiv(XInt(At(close, 1)), XInt(At(close, k + 1))))
    ELSE XInt(0)

\* close.iloc[-1] / close.iloc[-22] - 1 if len(close) >= 22 else 0
Return21d(close) ==
    IF Len(close) >= BetaWindow + 1
    THEN XSub(XDiv(XInt(At(close, 1)), XInt(At(close, BetaWindow + 1))), XInt(1))
    ELSE XInt(0)

RECURSIVE XSumOf(_)
XSumOf(s) == IF s = <<>> THEN XInt(0) ELSE XAdd(Head(s), XSumOf(Tail(s)))

\* sum of (x - mean x)(y - mean y) over two series of equal length: NaN as
\* soon as a value is not finite
CoMoment(xs, ys) ==
    IF \E j \in 1..Len(xs) : ~XIsNum(xs[j]) \/ ~XIsNum(ys[j]) THEN XNaN
    ELSE XSub(XSumOf([j \in 1..Len(xs) |-> XMul(xs[j], ys[j])]),
              XDiv(XMul(XSumOf(xs), XSumOf(ys)), XInt(Len(xs))))

\* Series.cov and Series.var (ddof = 1)
Cov(xs, ys) == XDiv(CoMoment(xs, ys), XInt(Len(xs) - 1))
Var(ys) == Cov(ys, ys)

MarketDefaults ==
    ("market_residual_return" :> XInt(0)) @@ ("beta_to_spy" :> XInt(1))
       @@ ("relative_strength_vs_spy" :> XInt(0))

\* beta = covariance / spy_variance if spy_variance > 0 else 1.0, and the
\* residual return stock_return_1d - beta * spy_return_1d
BetaFeatures(stock_returns, spy_returns, recent_stock, recent_spy) ==
    LET covariance == Cov(recent_stock, recent_spy)
        spy_variance == Var(recent_spy)
        beta == IF XPos(spy_variance) THEN XDiv(covariance, spy_variance)
                ELSE XInt(1)
    IN  ("market_residual_return" :>
            XSub(At(stock_returns, 1), XMul(beta, At(spy_returns, 1))))
          @@ ("beta_to_spy" :> beta)

\* section 5 of extract_features: the features relative to the benchmark
MarketFeatures(close_prices, spy) ==
    IF spy.given /\ Len(spy.close) >= Len(close_prices)
    THEN IF ~spy.ok
         THEN MarketDefaults                     \* spy_df['close'] raises
         ELSE
         LET spy_returns == PctChange(spy.close)
             stock_returns == PctChange(close_prices)
             aligned == LastOf(spy_returns, Len(stock_returns))
             positions == [j \in 1..Len(stock_returns) |-> j]
             valid_idx == SelectSeq(positions,
                             LAMBDA j : stock_returns[j].k # "nan"
                                          /\ aligned[j].k # "nan")
             recent == LastOf(valid_idx, BetaWindow)
             recent_stock == [j \in 1..Len(recent) |-> stock_returns[recent[j]]]
             recent_spy == [j \in 1..Len(recent) |-> aligned[recent[j]]]
         IN  (IF Len(stock_returns) >= BetaWindow /\ Len(valid_idx) >= BetaWindow
              THEN BetaFeatures(stock_returns, spy_returns, recent_stock, recent_spy)
              ELSE ("market_residual_return" :> XInt(0))
                     @@ ("beta_to_spy" :> XInt(1)))
               @@ ("relative_strength_vs_spy" :>
                      XSub(Return21d(close_prices), Return21d(spy.close)))
    ELSE MarketDefaults

\* the dictionary built by sections 1 and 5
RawFeatures(close_prices, spy) ==
    ("log_return_1d" :> LogReturn(close_prices, 1))
      @@ ("log_return_5d" :> LogReturn(close_prices, 5))
      @@ ("log_return_21d" :> LogReturn(close_prices, 21))
      @@ MarketFeatures(close_prices, spy)

\* variant: only NaN is replaced
SanitizeNaNOnly(features) ==
    [key \in DOMAIN features |->
        IF features[key].k = "nan" THEN XInt(0) ELSE features[key]]

\* the final loop: NaN and +/-Inf are replaced by 0.0
Sanitize(features) ==
    [key \in DOMAIN features |->
        IF XIsNaNOrInf(features[key]) THEN XInt(0) ELSE features[key]]

\* if len(df) < 200: raise ValueError
HistoryTooShort(frame) == Len(frame) < MinHistory

\* extract_features(df, index, spy_df): "InsufficientHistory" = the ValueError
\* of the length test, "IndexError" = data.iloc[-1] on an empty window
ExtractFeatures(frame, index, spy) ==
    IF HistoryTooShort(frame)
    THEN [status |-> "InsufficientHistory", features |-> <<>>]
    ELSE IF Window(frame, index) = <<>>
    THEN [status |-> "IndexError", features |-> <<>>]
    ELSE [status |-> "ok",
          features |-> Sanitize(RawFeatures(Window(frame, index), spy))]


NotExtracted == [status |-> "none", features |-> <<>>]

(***************************************************************************)
(* feature_engineering.py: state of a call of extract_features and of a   *)
(* run of engineer_dataset                                                 *)
(***************************************************************************)
VARIABLES
    df,               \* the price history passed by the caller
    spy_df,           \* the benchmark passed by the caller
    index,            \* the index passed to extract_features
    extracted,        \* what the extract_features call returned or raised
    look_forward,     \* the look_forward passed to engineer_dataset
    raising,          \* bar indices at which the extraction raises
    fe_pc,            \* "idle", "loop": before iteration row_i, "done"
    row_i,            \* loop index i of engineer_dataset
    features_list, returns_targets, dates, current_prices

feVars == <<df, spy_df, index, extracted, look_forward, raising, fe_pc, row_i,
            features_list, returns_targets, dates, current_prices>>

\* no call of feature_engineering.py is made
IdleFeatures ==
    /\ df = <<>> /\ spy_df = NoBenchmark /\ index = -1
    /\ extracted = NotExtracted
    /\ look_forward = 1 /\ raising = {}
    /\ fe_pc = "idle" /\ row_i = 0
    /\ features_list = <<>> /\ returns_targets = <<>>
    /\ dates = <<>> /\ current_prices = <<>>


(***************************************************************************)
(* feature_engineering.py: normalize_features, and its use by the predict  *)
(* endpoint (app.py) and by test_backtest.py.  A feature table is one      *)
(* column of numbers, one per row.  A standard deviation is carried by its *)
(* square and a z-score by its sign and its square.                        *)
(***************************************************************************)
VARIABLES
    X,                \* the feature table returned by engineer_dataset
    normalized        \* what the pipeline derived from it, <<>> before

nzVars == <<X, normalized>>

IdleNormalize == X = <<>> /\ normalized = <<>>

\* features_df.mean()
ColumnMean(col) ==
    RDiv(RSum([k \in 1..Len(col) |-> RInt(col[k])]), RInt(Len(col)))

\* the square of features_df.std() (ddof = 1), 0 replaced by 1; the NaN of a
\* single row is replaced by 1 as well
ColumnStdSquared(col) ==
    LET mean == ColumnMean(col)
        ss == RSum([k \in 1..Len(col) |->
                      RMul(RSub(RInt(col[k]), mean), RSub(RInt(col[k]), mean))])
    IN  IF Len(col) < 2 \/ ss = RZero THEN ROne
        ELSE RDiv(ss, RInt(Len(col) - 1))

\* (value - mean) / std
ZScore(value, mean, std_squared) ==
    LET centered == RSub(RInt(value), mean)
    IN  [sign |-> RSign(centered),
         square |-> RDiv(RMul(centered, centered), std_squared)]

\* normalize_features(features_df): the z-scores against the statistics of
\* the frame it is given; with one row the NaN z-score is replaced by 0
NormalizeFeatures(col) ==
    LET means == ColumnMean(col)
        stds == ColumnStdSquared(col)
    IN  [normalized_df |->
            [k \in 1..Len(col) |->
                IF Len(col) < 2 THEN [sign |-> 0, square |-> RZero]
                ELSE ZScore(col[k], means, stds)],
         means |-> means,
         stds |-> stds]

\* split_idx = int(len(X) * 0.8)
SplitIdx(n) == (4 * n) \div 5

\* X_normalized, means, stds = normalize_features(X), then the 80/20 split
NormalizeAndSplit(table) ==
    LET out == NormalizeFeatures(table)
        split_idx == SplitIdx(Len(table))
    IN  [means |-> out.means, stds |-> out.stds,
         split_idx |-> split_idx,
         X_train |-> SubSeq(out.normalized_df, 1, split_idx),
         X_test |-> SubSeq(out.normalized_df, split_idx + 1, Len(table))]

(***************************************************************************)
(* models.py: TimeSeriesModels.  A member is None or the model fitted on a  *)
(* price series; self.prices is None or the series of the latest train.    *)
(* What the statsmodels fits and forecasts do is an input of the calls:    *)
(* a fit succeeds or raises, a forecast returns a price or raises.         *)
(***************************************************************************)
VARIABLES
    es_model,       \* self.es_model
    arima_model,    \* self.arima_model
    prices,         \* self.prices
    ts_call,        \* the arguments and library outcomes of the latest predict
    predictions     \* what the latest predict returned

tsVars == <<es_model, arima_model, prices, ts_call, predictions>>

NoModel == [fitted |-> FALSE, on |-> <<>>]
FittedOn(series) == [fitted |-> TRUE, on |-> series]
NoPrices == [given |-> FALSE, values |-> <<>>]
PricesOf(series) == [given |-> TRUE, values |-> series]

NoForecastCall == [steps |-> 0, es |-> [raises |-> FALSE, value |-> 0],
                   arima |-> [raises |-> FALSE, value |-> 0]]
NoPredictions ==
    [status |-> "none", es |-> 0, arima |-> 0,
     ensemble |-> RZero, confidence |-> RZero]

\* __init__
IdleTimeSeries ==
    /\ es_model = NoModel
    /\ arima_model = NoModel
    /\ prices = NoPrices
    /\ ts_call = NoForecastCall
    /\ predictions = NoPredictions

\* a member whose failed fit leaves a model in place
FitMemberKeepsModel(series, fit_ok) == FittedOn(<<>>)

\* a member after its fit: the fitted model, or None when the fit raised
FitMember(series, fit_ok) == IF fit_ok THEN FittedOn(series) ELSE NoModel

FallbackFirstPrice(p) == p.values[1]

\* float(self.prices.iloc[-1])
FallbackPrice(p) == p.values[Len(p.values)]

\* the member is None or its forecast raises
NeedsFallback(model, outcome) == ~model.fitted \/ outcome.raises

\* predictions['exponential_smoothing'] and predictions['arima']
MemberForecast(model, outcome, p) ==
    IF NeedsFallback(model, outcome) THEN FallbackPrice(p) ELSE outcome.value

\* predictions['ensemble']: both members weigh 0.5
EnsemblePrice(es, arima) == RAdd(Rat(es, 2), Rat(arima, 2))

\* predictions['confidence'] = max(0.5, 0.8 - steps * 0.05)
ForecastConfidence(steps) ==
    LET c == RSub(Rat(4, 5), Rat(steps, 20))
    IN  IF RLt(c, Rat(1, 2)) THEN Rat(1, 2) ELSE c

\* predict(steps): the fallback reads self.prices, which raises when it is
\* None or empty
PredictOf(es_m, arima_m, p, steps, es_out, arima_out) ==
    IF (NeedsFallback(es_m, es_out) \/ NeedsFallback(arima_m, arima_out))
          /\ (~p.given \/ p.values = <<>>)
    THEN [status |-> "raised", es |-> 0, arima |-> 0,
          ensemble |-> RZero, confidence |-> RZero]
    ELSE LET es == MemberForecast(es_m, es_out, p)
             arima == MemberForecast(arima_m, arima_out, p)
         IN  [status |-> "ok", es |-> es, arima |-> arima,
              ensemble |-> EnsemblePrice(es, arima),
              confidence |-> ForecastConfidence(steps)]

(***************************************************************************)
(* technical_indicators.py: TechnicalIndicators.  An OHLCV frame is the    *)
(* sequence of its bars [high, low, close, volume], integers with          *)
(* low <= close <= high and volume >= 0.  Indicator values are exact       *)
(* rationals; a description is its text with the numbers left out.         *)
(***************************************************************************)
\* df[c].values
Column(frame, c) == [j \in 1..Len(frame) |-> frame[j][c]]

Rats(s) == [j \in 1..Len(s) |-> RInt(s[j])]

\* np.mean of a non-empty array
RMean(xs) == RDiv(RSum(xs), RInt(Len(xs)))

\* np.diff
Diff(s) == [j \in 1..(Len(s) - 1) |-> s[j + 1] - s[j]]

\* the default periods of the indicators
RsiPeriod == 14
MacdFast == 12
MacdSlow == 26
MacdSignal == 9
BollingerPeriod == 20
StochasticK == 14
StochasticD == 3
AdxPeriod == 14
WilliamsPeriod == 14
CciPeriod == 20

\* avg = np.mean(values[:period])
\* for i in range(period, len(values)):
\*     avg = (avg * (period - 1) + values[i]) / period
\* (avgs holds the successive values of avg)
RECURSIVE WilderAverageFrom(_, _, _, _)
WilderAverageFrom(values, period, i, avgs) ==
    IF i > Len(values) THEN avgs[Len(avgs)]
    ELSE WilderAverageFrom(values, period, i + 1,
             Append(avgs, RDiv(RAdd(RMul(avgs[Len(avgs)], RInt(period - 1)),
                                    RInt(values[i])),
                               RInt(period))))
WilderAverage(values, period) ==
    WilderAverageFrom(values, period, period + 1,
                      <<RMean(Rats(SubSeq(values, 1, period)))>>)

RsiNeutral ==
    [value |-> RInt(50), signal |-> "neutral",
     description |-> "Insufficient data for RSI"]

\* calculate_rsi(prices, period)
CalculateRsi(closes, period) ==
    IF Len(closes) < period + 1 THEN RsiNeutral
    ELSE LET deltas == Diff(closes)
             gains == [j \in 1..Len(deltas) |-> IF deltas[j] > 0 THEN deltas[j] ELSE 0]
             losses == [j \in 1..Len(deltas) |-> IF deltas[j] < 0 THEN -deltas[j] ELSE 0]
             avg_gain == WilderAverage(gains, period)
             avg_loss == WilderAverage(losses, period)
             rs == IF avg_loss.n # 0 THEN RDiv(avg_gain, avg_loss) ELSE RInt(100)
             rsi == RSub(RInt(100), RDiv(RInt(100), RAdd(ROne, rs)))
         IN  IF RLt(rsi, RInt(30))
             THEN [value |-> rsi, signal |-> "oversold",
                   description |-> "RSI indicates oversold conditions"]
             ELSE IF RLt(RInt(70), rsi)
             THEN [value |-> rsi, signal |-> "overbought",
                   description |-> "RSI indicates overbought conditions"]
             ELSE [value |-> rsi, signal |-> "neutral",
                   description |-> "RSI is in neutral territory"]

\* Series.ewm(span=span, adjust=False).mean():
\* y[0] = x[0], y[t] = (1 - a) * y[t-1] + a * x[t] with a = 2 / (span + 1)
RECURSIVE EwmFrom(_, _, _, _)
EwmFrom(xs, span, k, acc) ==
    IF k > Len(xs) THEN acc
    ELSE LET a == Rat(2, span + 1)
             y == IF k = 1 THEN xs[1]
                  ELSE RAdd(RMul(RSub(ROne, a), acc[k - 1]), RMul(a, xs[k]))
         IN  EwmFrom(xs, span, k + 1, Append(acc, y))
Ewm(xs, span) == EwmFrom(xs, span, 1, <<>>)

MacdNeutral ==
    [macd |-> RZero, signal |-> RZero, histogram |-> RZero,
     trend |-> "neutral", description |-> "Insufficient data for MACD"]

\* calculate_macd(prices, fast, slow, signal_period)
CalculateMacd(closes, fast, slow, signal_period) ==
    IF Len(closes) < slow + signal_period THEN MacdNeutral
    ELSE LET ema_fast == Ewm(Rats(closes), fast)
             ema_slow == Ewm(Rats(closes), slow)
             macd_line == [j \in 1..Len(closes) |-> RSub(ema_fast[j], ema_slow[j])]
             signal_line == Ewm(macd_line, signal_period)
             macd_val == macd_line[Len(closes)]
             signal_val == signal_line[Len(closes)]
             hist_val == RSub(macd_val, signal_val)
             out(trend, description) ==
                 [macd |-> macd_val, signal |-> signal_val, histogram |-> hist_val,
                  trend |-> trend, description |-> description]
         IN  IF RPos(hist_val) /\ RLt(signal_val, macd_val)
             THEN out("bullish", "MACD is above signal line - bullish momentum")
             ELSE IF RSign(hist_val) < 0 /\ RLt(macd_val, signal_val)
             THEN out("bearish", "MACD is below signal line - bearish momentum")
             ELSE out("neutral", "MACD shows neutral momentum")

\* Series.rolling(window).mean().iloc[-1] of at least window values
RollingMean(xs, window) == RMean(LastOf(xs, window))

\* the square of Series.rolling(window).std().iloc[-1] (ddof = 1)
RollingVar(xs, window) ==
    LET w == LastOf(xs, window)
        m == RMean(w)
    IN  RDiv(RSum([j \in 1..window |-> RMul(RSub(w[j], m), RSub(w[j], m))]),
             RInt(window - 1))

\* the number times * sqrt(square)
Root(times, square) == [times |-> times, square |-> square]
NoRoot == Root(RZero, RZero)

\* calculate_bollinger_bands(prices, period, num_std)
CalculateBollingerBands(closes, period, num_std) ==
    IF Len(closes) < period
    THEN LET current == IF Len(closes) > 0 THEN RInt(closes[Len(closes)]) ELSE RZero
         IN  [upper |-> [base |-> current, plus |-> NoRoot],
              middle |-> current,
              lower |-> [base |-> current, plus |-> NoRoot],
              bandwidth |-> NoRoot, position |-> "middle",
              description |-> "Insufficient data for Bollinger Bands"]
    ELSE LET sma == RollingMean(Rats(closes), period)
             var == RollingVar(Rats(closes), period)
             away == RSub(RInt(closes[Len(closes)]), sma)
             \* |current_price - sma| > num_std * std
             outside == RLt(RMul(RInt(num_std * num_std), var), RMul(away, away))
             out(position, description) ==
                 [upper |-> [base |-> sma, plus |-> Root(RInt(num_std), var)],
                  middle |-> sma,
                  lower |-> [base |-> sma, plus |-> Root(RInt(-num_std), var)],
                  bandwidth |-> IF RPos(sma)
                                THEN Root(RDiv(RInt(2 * num_std * 100), sma), var)
                                ELSE NoRoot,
                  position |-> position, description |-> description]
         IN  IF RPos(away) /\ outside
             THEN out("above", "Price is above upper band - potentially overbought")
             ELSE IF RSign(away) < 0 /\ outside
             THEN out("below", "Price is below lower band - potentially oversold")
             ELSE out("middle", "Price is within bands - normal volatility")

\* calculate_moving_averages(prices): prices[-1] of an empty array raises
CalculateMovingAverages(closes) ==
    LET n == Len(closes)
        xs == Rats(closes)
        sma(window) == IF n >= window THEN RollingMean(xs, window) ELSE RZero
        ema(span) == IF n >= span THEN Ewm(xs, span)[n] ELSE RZero
        sma20 == sma(20)
        sma50 == sma(50)
        sma200 == sma(200)
        out(status, trend, description) ==
            [status |-> status, sma20 |-> sma20, sma50 |-> sma50, sma200 |-> sma200,
             ema12 |-> ema(12), ema26 |-> ema(26),
             trend |-> trend, description |-> description]
    IN  IF n = 0 THEN out("IndexError", "none", "none")
        ELSE LET current_price == RInt(closes[n])
             IN  IF /\ RLt(sma50, sma20)
                    /\ (sma200 = RZero \/ RLt(sma200, sma50))
                    /\ RLt(sma20, current_price)
                 THEN out("ok", "bullish", "Price above short-term MAs in bullish alignment")
                 ELSE IF /\ RLt(sma20, sma50)
                         /\ (sma200 = RZero \/ RLt(sma50, sma200))
                         /\ RLt(current_price, sma20)
                 THEN out("ok", "bearish", "Price below short-term MAs in bearish alignment")
                 ELSE out("ok", "neutral", "Moving averages show mixed signals")

SeqMin(s) == CHOOSE x \in {s[j] : j \in 1..Len(s)} : \A j \in 1..Len(s) : x <= s[j]
SeqMax(s) == CHOOSE x \in {s[j] : j \in 1..Len(s)} : \A j \in 1..Len(s) : x >= s[j]

\* k at bar j: NaN before k_period bars are there, and 0/0 = NaN over a window
\* whose highs and lows are one price
StochasticKAt(frame, j, k_period) ==
    IF j < k_period THEN XNaN
    ELSE LET low_min == SeqMin(SubSeq(Column(frame, "low"), j - k_period + 1, j))
             high_max == SeqMax(SubSeq(Column(frame, "high"), j - k_period + 1, j))
         IN  XDiv(XInt(100 * (frame[j].close - low_min)), XInt(high_max - low_min))

StochasticNeutral ==
    [k |-> XInt(50), d |-> XInt(50), signal |-> "neutral",
     description |-> "Insufficient data for Stochastic"]

\* calculate_stochastic(df, k_period, d_period)
CalculateStochastic(frame, k_period, d_period) ==
    IF Len(frame) < k_period THEN StochasticNeutral
    ELSE LET n == Len(frame)
             k == StochasticKAt(frame, n, k_period)
             \* k.rolling(window=d_period).mean().iloc[-1]
             d == IF n < d_period THEN XNaN
                  ELSE XDiv(XSumOf([j \in 1..d_period |->
                                       StochasticKAt(frame, n - d_period + j, k_period)]),
                            XInt(d_period))
             k_val == IF k.k = "nan" THEN XInt(50) ELSE k
             d_val == IF d.k = "nan" THEN XInt(50) ELSE d
             out(signal, description) ==
                 [k |-> k_val, d |-> d_val, signal |-> signal, description |-> description]
         IN  IF XPos(XSub(XInt(20), k_val))
             THEN out("oversold", "Stochastic %K indicates oversold conditions")
             ELSE IF XPos(XSub(k_val, XInt(80)))
             THEN out("overbought", "Stochastic %K indicates overbought conditions")
             ELSE out("neutral", "Stochastic in neutral range")

\* (df['high'] + df['low'] + df['close']) / 3
TypicalPrice(frame) ==
    [j \in 1..Len(frame) |-> Rat(frame[j].high + frame[j].low + frame[j].close, 3)]

VwapNeutral ==
    [vwap |-> RZero, position |-> "below",
     description |-> "Insufficient data for VWAP"]

\* calculate_vwap(df)
CalculateVwap(frame) ==
    IF Len(frame) = 0 THEN VwapNeutral
    ELSE LET typical_price == TypicalPrice(frame)
             volume_sum == RSum(Rats(Column(frame, "volume")))
             vwap == IF RPos(volume_sum)
                     THEN RDiv(RSum([j \in 1..Len(frame) |->
                                        RMul(typical_price[j], RInt(frame[j].volume))]),
                               volume_sum)
                     ELSE RZero
             current_price == RInt(frame[Len(frame)].close)
         IN  IF RLt(vwap, current_price)
             THEN [vwap |-> vwap, position |-> "above",
                   description |-> "Price is above VWAP - bullish signal"]
             ELSE [vwap |-> vwap, position |-> "below",
                   description |-> "Price is below VWAP - bearish signal"]

Max2(a, b) == IF a >= b THEN a ELSE b

\* smooth = np.sum(values[:period])
\* for i in range(period, len(values)):
\*     smooth = smooth - smooth / period + values[i]
\* (sums holds the successive values of smooth)
RECURSIVE WilderSumFrom(_, _, _, _)
WilderSumFrom(values, period, i, sums) ==
    IF i > Len(values) THEN sums[Len(sums)]
    ELSE WilderSumFrom(values, period, i + 1,
             Append(sums, RAdd(RSub(sums[Len(sums)],
                                    RDiv(sums[Len(sums)], RInt(period))),
                               RInt(values[i]))))
WilderSum(values, period) ==
    WilderSumFrom(values, period, period + 1, <<RSum(Rats(SubSeq(values, 1, period)))>>)

AdxNeutral ==
    [adx |-> RZero, plusDI |-> RZero, minusDI |-> RZero,
     trend |-> "no_trend", description |-> "Insufficient data for ADX"]

\* calculate_adx(df, period)
CalculateAdx(frame, period) ==
    IF Len(frame) < period + 1 THEN AdxNeutral
    ELSE LET high == Column(frame, "high")
             low == Column(frame, "low")
             close == Column(frame, "close")
             m == Len(frame) - 1
             up(j) == high[j + 1] - high[j]
             down(j) == low[j] - low[j + 1]
             tr == [j \in 1..m |->
                       Max2(high[j + 1] - low[j + 1],
                            Max2(Abs(high[j + 1] - close[j]), Abs(low[j + 1] - close[j])))]
             plus_dm == [j \in 1..m |-> IF up(j) > down(j) THEN Max2(up(j), 0) ELSE 0]
             minus_dm == [j \in 1..m |-> IF down(j) > up(j) THEN Max2(down(j), 0) ELSE 0]
             smooth_tr == WilderSum(tr, period)
             plus_di == IF RPos(smooth_tr)
                        THEN RMul(RDiv(WilderSum(plus_dm, period), smooth_tr), RInt(100))
                        ELSE RZero
             minus_di == IF RPos(smooth_tr)
                         THEN RMul(RDiv(WilderSum(minus_dm, period), smooth_tr), RInt(100))
                         ELSE RZero
             dx == IF RPos(RAdd(plus_di, minus_di))
                   THEN RMul(RDiv(RAbs(RSub(plus_di, minus_di)), RAdd(plus_di, minus_di)),
                             RInt(100))
                   ELSE RZero
             adx == dx
             out(trend, description) ==
                 [adx |-> adx, plusDI |-> plus_di, minusDI |-> minus_di,
                  trend |-> trend, description |-> description]
         IN  IF RLt(adx, RInt(20)) THEN out("no_trend", "ADX: no trend")
             ELSE IF RLt(minus_di, plus_di)
             THEN (IF RLt(RInt(40), adx) THEN out("strong_uptrend", "ADX: strong uptrend")
                   ELSE out("uptrend", "ADX: uptrend"))
             ELSE (IF RLt(RInt(40), adx) THEN out("strong_downtrend", "ADX: strong downtrend")
                   ELSE out("downtrend", "ADX: downtrend"))

WilliamsNeutral ==
    [value |-> RInt(-50), signal |-> "neutral",
     description |-> "Insufficient data for Williams %R"]

\* calculate_williams_r(df, period)
CalculateWilliamsR(frame, period) ==
    IF Len(frame) < period THEN WilliamsNeutral
    ELSE LET recent_df == LastOf(frame, period)
             highest_high == SeqMax(Column(recent_df, "high"))
             lowest_low == SeqMin(Column(recent_df, "low"))
             current_close == frame[Len(frame)].close
             williams_r == IF highest_high - lowest_low > 0
                           THEN Rat((highest_high - current_close) * (-100),
                                    highest_high - lowest_low)
                           ELSE RInt(-50)
         IN  IF RLt(williams_r, RInt(-80))
             THEN [value |-> williams_r, signal |-> "oversold",
                   description |-> "Williams %R indicates oversold conditions"]
             ELSE IF RLt(RInt(-20), williams_r)
             THEN [value |-> williams_r, signal |-> "overbought",
                   description |-> "Williams %R indicates overbought conditions"]
             ELSE [value |-> williams_r, signal |-> "neutral",
                   description |-> "Williams %R is in neutral territory"]

CciNeutral ==
    [value |-> RZero, signal |-> "neutral",
     description |-> "Insufficient data for CCI"]

\* calculate_cci(df, period)
CalculateCci(frame, period) ==
    IF Len(frame) < period THEN CciNeutral
    ELSE LET typical_price == TypicalPrice(frame)
             w == LastOf(typical_price, period)
             current_tp == typical_price[Len(frame)]
             current_sma == RMean(w)
             \* np.mean(np.abs(x - x.mean())) over the last period bars
             current_md == RMean([j \in 1..period |-> RAbs(RSub(w[j], current_sma))])
             cci == IF RPos(current_md)
                    THEN RDiv(RSub(current_tp, current_sma), RMul(Rat(15, 1000), current_md))
                    ELSE RZero
         IN  IF RLt(cci, RInt(-100))
             THEN [value |-> cci, signal |-> "oversold",
                   description |-> "CCI indicates oversold conditions"]
             ELSE IF RLt(RInt(100), cci)
             THEN [value |-> cci, signal |-> "overbought",
                   description |-> "CCI indicates overbought conditions"]
             ELSE [value |-> cci, signal |-> "neutral",
                   description |-> "CCI is in neutral range"]

\* one vote
Vote(cond) == IF cond THEN 1 ELSE 0

\* _calculate_overall_signal(indicators)
CalculateOverallSignal(indicators) ==
    LET bullish_signals ==
            Vote(indicators.rsi.signal = "oversold")
              + Vote(indicators.macd.trend = "bullish")
              + Vote(indicators.bollingerBands.position = "below")
              + Vote(indicators.movingAverages.trend = "bullish")
              + Vote(indicators.stochastic.signal = "oversold")
              + Vote(indicators.vwap.position = "above")
              + Vote(indicators.adx.trend \in {"strong_uptrend", "uptrend"})
              + Vote(indicators.williamsR.signal = "oversold")
              + Vote(indicators.cci.signal = "oversold")
        bearish_signals ==
            Vote(indicators.rsi.signal = "overbought")
              + Vote(indicators.macd.trend = "bearish")
              + Vote(indicators.bollingerBands.position = "above")
              + Vote(indicators.movingAverages.trend = "bearish")
              + Vote(indicators.stochastic.signal = "overbought")
              + Vote(indicators.vwap.position = "below")
              + Vote(indicators.adx.trend \in {"strong_downtrend", "downtrend"})
              + Vote(indicators.williamsR.signal = "overbought")
              + Vote(indicators.cci.signal = "overbought")
    IN  IF bullish_signals >= 6 THEN "strong_buy"
        ELSE IF bullish_signals >= 4 THEN "buy"
        ELSE IF bearish_signals >= 6 THEN "strong_sell"
        ELSE IF bearish_signals >= 4 THEN "sell"
        ELSE "neutral"

\* the nine indicators of calculate_all, with their default periods
IndicatorsOf(frame, closes) ==
    [rsi |-> CalculateRsi(closes, RsiPeriod),
     macd |-> CalculateMacd(closes, MacdFast, MacdSlow, MacdSignal),
     bollingerBands |-> CalculateBollingerBands(closes, BollingerPeriod, 2),
     movingAverages |-> CalculateMovingAverages(closes),
     stochastic |-> CalculateStochastic(frame, StochasticK, StochasticD),
     vwap |-> CalculateVwap(frame),
     adx |-> CalculateAdx(frame, AdxPeriod),
     williamsR |-> CalculateWilliamsR(frame, WilliamsPeriod),
     cci |-> CalculateCci(frame, CciPeriod)]

\* an exception of an indicator leaves calculate_all; otherwise the overall
\* signal is added.  The timestamp of the result is not modelled.
WithOverallSignal(indicators) ==
    IF indicators.movingAverages.status # "ok"
    THEN [status |-> indicators.movingAverages.status,
          indicators |-> indicators, overallSignal |-> "none"]
    ELSE [status |-> "ok", indicators |-> indicators,
          overallSignal |-> CalculateOverallSignal(indicators)]

\* calculate_all(df)
CalculateAll(frame) == WithOverallSignal(IndicatorsOf(frame, Column(frame, "close")))

\* what a call does: it returns out, or raises the exception named by status
Returns(out) == [status |-> "ok", out |-> out]
ReturnsOrRaises(out) == [status |-> out.status, out |-> out]

VARIABLES
    ohlcv,      \* the frame df the indicators are called with
    ti_fn,      \* the function called, "none" before the call
    ti_out      \* what the call did

tiVars == <<ohlcv, ti_fn, ti_out>>

NoIndicatorCall == [status |-> "none", out |-> <<>>]

IdleIndicators == ohlcv = <<>> /\ ti_fn = "none" /\ ti_out = NoIndicatorCall

(***************************************************************************)
(* cache.py: SimpleCache.  self._cache maps a key to its entry; an absent  *)
(* key is the entry NoEntry.  time.time() is the clock now.                *)
(***************************************************************************)
CacheKeys == {"k1", "k2"}
CacheValues == {1, 2}
Ttls == {0, 2}

NoEntry == [present |-> FALSE, value |-> 0, expires_at |-> 0]
EmptyCache == [k \in CacheKeys |-> NoEntry]

ExpiredAtDeadline(entry, t) == t >= entry.expires_at

\* time.time() > entry['expires_at']
Expired(entry, t) == t > entry.expires_at

\* get(key) at time t: the dictionary it leaves and what it returns
\* (hit = FALSE is None)
CacheGet(c, key, t) ==
    IF ~c[key].present THEN [cache |-> c, hit |-> FALSE, value |-> 0]
    ELSE IF Expired(c[key], t)
    THEN [cache |-> [c EXCEPT ![key] = NoEntry], hit |-> FALSE, value |-> 0]
    ELSE [cache |-> c, hit |-> TRUE, value |-> c[key].value]

\* set(key, value, ttl) at time t
CacheSet(c, key, value, ttl, t) ==
    [c EXCEPT ![key] = [present |-> TRUE, value |-> value, expires_at |-> t + ttl]]

\* delete(key)
CacheDelete(c, key) == [c EXCEPT ![key] = NoEntry]

\* clear()
CacheClear(c) == EmptyCache

\* cleanup_expired() at time t
CacheCleanupExpired(c, t) ==
    [k \in CacheKeys |-> IF c[k].present /\ Expired(c[k], t) THEN NoEntry ELSE c[k]]

VARIABLES
    cache,          \* self._cache
    now,            \* time.time()
    cache_out,      \* the latest call of a single caller and what it returned
    last_set,       \* per key, the most recent set and whether its entry was removed
    cache_threads,  \* per thread, the call it is in and its local variables
    ever_set        \* per key, the values set so far

cacheVars == <<cache, now, cache_out, last_set, cache_threads, ever_set>>

CacheThreads == {1, 2}

NoCacheCall == [op |-> "none", key |-> "none", hit |-> FALSE, value |-> 0]
NeverSet == [any |-> FALSE, value |-> 0, at |-> 0, ttl |-> 0, removed |-> FALSE]
IdleThread ==
    [op |-> "none", key |-> "none", pc |-> "idle", entry |-> NoEntry,
     current_time |-> 0, size |-> 0, todo |-> {}, expired_keys |-> {},
     status |-> "idle", hit |-> FALSE, value |-> 0]

\* __init__
IdleCache ==
    /\ cache = EmptyCache
    /\ now = 0
    /\ cache_out = NoCacheCall
    /\ last_set = [k \in CacheKeys |-> NeverSet]
    /\ cache_threads = [t \in CacheThreads |-> IdleThread]
    /\ ever_set = [k \in CacheKeys |-> {}]

(***************************************************************************)
(* StockDataFetcher (stock_data.py)                                        *)
(***************************************************************************)
\* the columns fetch_historical_data returns
RequiredColumns == <<"date", "open", "high", "low", "close", "volume">>

\* col.lower()
Lower(col) ==
    CASE col = "Date" -> "date"
      [] col = "Open" -> "open"
      [] col = "High" -> "high"
      [] col = "Low" -> "low"
      [] col = "Close" -> "close"
      [] col = "Volume" -> "volume"
      [] col = "Adj Close" -> "adj close"
      [] col = "Dividends" -> "dividends"
      [] col = "Stock Splits" -> "stock splits"
      [] OTHER -> col

\* df = None
NoFrame ==
    [none |-> TRUE, multi |-> FALSE, index |-> "none", columns |-> <<>>,
     rows |-> 0, of |-> 0, via |-> "none"]

\* what yf.download answers on attempt number of: a frame of rows bars with
\* the dates as its index and (field, ticker) columns
DownloadFrame(rows, of) ==
    [none |-> FALSE, multi |-> TRUE, index |-> "Date",
     columns |-> <<"Close", "High", "Low", "Open", "Volume">>,
     rows |-> rows, of |-> of, via |-> "download"]

\* what yf.Ticker(symbol).history answers on attempt number of
TickerFrame(rows, of) ==
    [none |-> FALSE, multi |-> FALSE, index |-> "Date",
     columns |-> <<"Open", "High", "Low", "Close", "Volume", "Dividends", "Stock Splits">>,
     rows |-> rows, of |-> of, via |-> "ticker"]

\* df.empty
Empty(frame) == frame.rows = 0

\* _standardize_dataframe: the index becomes a column, the names are
\* lowercased, and the required columns are selected
StandardizeDataframe(frame) ==
    LET reset == <<frame.index>> \o frame.columns
        lowered == [i \in 1..Len(reset) |-> Lower(reset[i])]
        names == {lowered[i] : i \in 1..Len(lowered)}
        missing == {i \in 1..Len(RequiredColumns) : RequiredColumns[i] \notin names}
    IN  IF missing # {}
        THEN [status |-> "ValueError", frame |-> NoFrame]
        ELSE [status |-> "returned",
              frame |-> [frame EXCEPT !.multi = FALSE, !.index = "range",
                                   !.columns = RequiredColumns]]

\* the mutated loop test: one more attempt than max_retries
HasAttemptAt(attempt, max_retries) == attempt <= max_retries

\* range(max_retries) has an attempt after the one numbered attempt (from 1)
HasNextAttempt(attempt, max_retries) == attempt < max_retries

VARIABLES
    fetcher         \* one call of fetch_historical_data: its position and locals

fetchVars == <<fetcher>>

IdleFetcher ==
    fetcher = [pc |-> "idle", max_retries |-> 0, attempt |-> 0, frame |-> NoFrame,
               downloads |-> 0, tickers |-> 0, log |-> <<>>,
               status |-> "idle", result |-> NoFrame]

(***************************************************************************)
(* The list objects self.trades is bound to over the runs of one           *)
(* Backtester (backtesting.py)                                             *)
(***************************************************************************)
\* self.trades.clear(): the list object is emptied and stays bound
LedgerCleared(ls, ref, trs) == [lists |-> ls, ref |-> ref]

\* self.trades = []: a new list object is bound, the old one keeps its content
LedgerReset(ls, ref, trs) == [lists |-> Append(ls, trs), ref |-> Len(ls) + 2]

\* the content of list object id, cur being the content of the object ref
\* that self.trades is bound to
Deref(ls, ref, cur, id) == IF id = ref THEN cur ELSE ls[id]

VARIABLES
    lists,          \* the contents of the list objects self.trades was bound to
    trades_ref,     \* the list object self.trades is bound to
    returned        \* the dictionaries returned by the earlier runs

runVars == <<lists, trades_ref, returned>>

IdleRuns ==
    /\ lists = <<>>
    /\ trades_ref = 1
    /\ returned = <<>>

(***************************************************************************)
(* app.py: the /predict request handler                                    *)
(***************************************************************************)
\* if len(df) < 250
MinPredictBars == 250

\* the base classes of the exceptions the handler meets
ExceptionBases(type) ==
    CASE type = "HTTPException" -> {"HTTPException", "Exception"}
      [] type = "ValueError" -> {"ValueError", "Exception"}
      [] OTHER -> {type, "Exception"}

\* an except clause for class catches the exception
Catches(class, exc) == class \in ExceptionBases(exc.type)

NoException == [type |-> "none", status_code |-> 0, detail |-> "none"]

\* HTTPException(status_code=..., detail=...)
HttpException(status_code, detail) ==
    [type |-> "HTTPException", status_code |-> status_code, detail |-> detail]

\* str(e): an HTTPException prints as its status code and its detail
StrOf(exc) ==
    IF exc.type = "HTTPException"
    THEN <<exc.status_code, exc.detail>>
    ELSE <<exc.detail>>

\* the body of the try block: what it raises, NoException when it returns.
\* fetched is the outcome of fetch_historical_data; rest is the outcome of
\* the feature, training, forecast and backtest steps that follow the test
\* of the number of bars
PredictBody(fetched, rest) ==
    IF fetched.status # "returned"
    THEN [type |-> "ValueError", status_code |-> 0, detail |-> "No data available"]
    ELSE IF fetched.rows < MinPredictBars
    THEN HttpException(400, "Insufficient data")
    ELSE IF rest = "raised"
    THEN [type |-> "Exception", status_code |-> 0, detail |-> "pipeline"]
    ELSE NoException

\* the answer to POST /predict: the response model, or the answer FastAPI
\* gives for the HTTPException that leaves the handler
PredictEndpoint(fetched, rest) ==
    LET raised == PredictBody(fetched, rest)
        leaving == IF raised.type = "none" THEN NoException
                   ELSE IF Catches("Exception", raised)
                   THEN HttpException(500, StrOf(raised))
                   ELSE raised
    IN  IF leaving.type = "none"
        THEN [status_code |-> 200, detail |-> <<>>, data_points |-> fetched.rows]
        ELSE [status_code |-> leaving.status_code,
              detail |-> IF leaving.status_code = 500 THEN leaving.detail
                         ELSE <<leaving.detail>>,
              data_points |-> 0]

VARIABLES
    request,        \* the latest POST /predict: what the fetcher and the later steps did
    response        \* the answer to it

appVars == <<request, response>>

NoRequest == [made |-> FALSE, fetched |-> [status |-> "none", rows |-> 0], rest |-> "none"]

IdleApp ==
    /\ request = NoRequest
    /\ response = [status_code |-> 0, detail |-> <<>>, data_points |-> 0]

\* the variables of the data fetcher, the runs and the request handlers
extraVars == <<fetchVars, runVars, appVars>>

IdleExtra == IdleFetcher /\ IdleRuns /\ IdleApp

\* the variables of the cache, the data fetcher and the request handlers
moreVars == <<cacheVars, extraVars>>

IdleMore == IdleCache /\ IdleExtra

\* the variables of the modules that serve the other endpoints
serviceVars == <<tsVars, tiVars, moreVars>>

\* no call of these modules is made
IdleService == IdleTimeSeries /\ IdleIndicators /\ IdleMore

\* the variables of the modules around the ensemble and the backtester
pipelineVars == <<feVars, nzVars, serviceVars>>

\* no call of these modules is made
IdlePipeline == IdleFeatures /\ IdleNormalize /\ IdleService


(***************************************************************************)
(* models.py: MLEnsemble                                                   *)
(***************************************************************************)
VARIABLES
    is_trained,        \* MLEnsemble.is_trained
    feature_names,     \* MLEnsemble.feature_names: 0 = [], else the id of the
                       \* training table whose columns were recorded
    fitted,            \* per member: 0 = not fitted, else the id of the
                       \* training table the member was last fitted on
    last,              \* the last call made by a single caller and its outcome
    train_completed,   \* history: some train() call has returned normally
    calls,             \* per thread: the inference call in flight or finished
    trained0           \* history: <<is_trained, feature_names, fitted>> when
                       \* the concurrent callers started

ensVars == <<is_trained, feature_names, fitted>>
callVars == <<last, train_completed, calls, trained0>>

\* the four members, in the order train() fits them and predict() reads them
Members == <<"linear", "lasso", "random_forest", "gradient_boosting">>
MemberSet == {Members[k] : k \in 1..Len(Members)}

\* ensemble weights, in percent
Weight(m) ==
    CASE m = "linear" -> 20
      [] m = "lasso" -> 15
      [] m = "random_forest" -> 35
      [] m = "gradient_boosting" -> 30

\* training tables (X_train, y_train) a caller may pass to train()
DataSets == {1, 2}

\* feature rows a caller may pass to predict()
Rows == {"up", "up_sure", "edge_up", "down"}

\* what a member fitted on table 1 predicts for a row, in units of 1e-4
\* (the regressors themselves are the abstract Predictor capability)
BasePred(m, x) ==
    CASE x = "up" -> IF m \in {"linear", "lasso"} THEN 150 ELSE 250
      [] x = "up_sure" -> 215
      [] x = "edge_up" -> 20
      [] x = "down" -> IF m \in {"linear", "lasso"} THEN -150 ELSE -250

\* member.predict(X) of a member fitted on table d: a member fitted on
\* another table predicts something else
MemberPredict(m, d, x) == IF d = 1 THEN BasePred(m, x) ELSE 10 - BasePred(m, x)

\* predict(X, return_individual=True) on one row
IndividualPreds(fit, x) == [m \in MemberSet |-> MemberPredict(m, fit[m], x)]

\* the ensemble of predict(X): the weighted sum, in units of 1e-6
WeightedSum(ip) ==
    ip["linear"] * Weight("linear") + ip["lasso"] * Weight("lasso")
      + ip["random_forest"] * Weight("random_forest")
      + ip["gradient_boosting"] * Weight("gradient_boosting")

\* |mean| > 0.01 in units of 1e-4, for the sum of the four members
MeanGuardSum == 400

\* variant: the coefficient of variation is used whatever the mean
ConfidenceNoMeanGuard(ip) ==
    LET S == ip["linear"] + ip["lasso"] + ip["random_forest"] + ip["gradient_boosting"]
        Q == ip["linear"] * ip["linear"] + ip["lasso"] * ip["lasso"]
               + ip["random_forest"] * ip["random_forest"]
               + ip["gradient_boosting"] * ip["gradient_boosting"]
        D == 4 * Q - S * S
    IN  IF 25 * D >= 4 * S * S /\ D > 0 THEN Rat(3, 5)
        ELSE IF 400 * D <= S * S THEN Rat(19, 20)
        ELSE RSub(ROne, Rat(ISqrt(D), Abs(S)))

\* calculate_confidence(X) on one row: clip(1 - cv, 0.6, 0.95) with
\* cv = std/|mean| where |mean| > 0.01 and 1.0 elsewhere.  With S the sum and
\* Q the sum of squares of the four predictions, std/|mean| = sqrt(4Q-S^2)/|S|.
ConfidenceOf(ip) ==
    LET S == ip["linear"] + ip["lasso"] + ip["random_forest"] + ip["gradient_boosting"]
        Q == ip["linear"] * ip["linear"] + ip["lasso"] * ip["lasso"]
               + ip["random_forest"] * ip["random_forest"]
               + ip["gradient_boosting"] * ip["gradient_boosting"]
        D == 4 * Q - S * S
    IN  IF Abs(S) > MeanGuardSum
        THEN IF 25 * D >= 4 * S * S THEN Rat(3, 5)            \* 1 - cv <= 0.6
             ELSE IF 400 * D <= S * S THEN Rat(19, 20)        \* 1 - cv >= 0.95
             ELSE RSub(ROne, Rat(ISqrt(D), Abs(S)))
        ELSE Rat(3, 5)                                        \* clip(1 - 1.0)

\* predict and calculate_confidence of every fitted state on every row
\* (tabulated once)
Fits == [MemberSet -> {0} \cup DataSets]
PredictTable == [f \in Fits |-> [x \in Rows |-> WeightedSum(IndividualPreds(f, x))]]
ConfidenceTable == [f \in Fits |-> [x \in Rows |-> ConfidenceOf(IndividualPreds(f, x))]]

EnsemblePredict(fit, x) == PredictTable[fit][x]
CalculateConfidence(fit, x) == ConfidenceTable[fit][x]


(***************************************************************************)
(* MLEnsemble operations, one caller: each call is one step                *)
(***************************************************************************)
\* status: "ok" = returned a value, "empty" = returned {}, "NotTrained" =
\* raised the not-trained ValueError, "raised" = a member's fit raised
NoCall == [op |-> "none", x |-> "none", status |-> "none", out |-> "none",
           after_train |-> FALSE]

\* train(X_train, y_train) on table d where the fit of member k + 1 raises
\* (k = 4: no fit raises).  feature_names is recorded first, the members are
\* fitted in order, is_trained is set after the fourth fit, then the training
\* metrics are computed with predict(X_train) and returned.
\* variant: is_trained is set before the members are fitted
TrainEffectFlagFirst(d, k) ==
    /\ feature_names' = d
    /\ fitted' = [m \in MemberSet |->
                    IF \E j \in 1..k : Members[j] = m THEN d ELSE fitted[m]]
    /\ is_trained' = TRUE

TrainEffect(d, k) ==
    /\ feature_names' = d
    /\ fitted' = [m \in MemberSet |->
                    IF \E j \in 1..k : Members[j] = m THEN d ELSE fitted[m]]
    /\ is_trained' = (IF k = Len(Members) THEN TRUE ELSE is_trained)

Train(d, k) ==
    /\ TrainEffect(d, k)
    /\ train_completed' = (train_completed \/ k = Len(Members))
    /\ last' = [op |-> "train", x |-> "none",
                status |-> IF k = Len(Members) THEN "ok" ELSE "raised",
                out |-> "metrics",
                after_train |-> train_completed]

\* what predict(X) returns or raises, for one row
PredictOutcome(trained, fit, x) ==
    IF ~trained THEN "NotTrained" ELSE WeightedSum(IndividualPreds(fit, x))

\* what calculate_confidence(X) returns or raises: it calls predict first
ConfidenceOutcome(trained, fit, x) ==
    IF ~trained THEN "NotTrained" ELSE ConfidenceOf(IndividualPreds(fit, x))

\* what get_feature_importance() returns: {} when untrained, else the mean
\* importances of the two tree members keyed by feature_names (abstracted to
\* the tables they come from)
ImportanceOutcome(trained, names, fit) ==
    IF ~trained THEN "empty"
    ELSE [names |-> names, rf |-> fit["random_forest"],
          gb |-> fit["gradient_boosting"]]

Predict(x) ==
    /\ last' = [op |-> "predict", x |-> x,
                status |-> IF is_trained THEN "ok" ELSE "NotTrained",
                out |-> PredictOutcome(is_trained, fitted, x),
                after_train |-> train_completed]
    /\ UNCHANGED <<ensVars, train_completed>>

Confidence(x) ==
    /\ last' = [op |-> "calculate_confidence", x |-> x,
                status |-> IF is_trained THEN "ok" ELSE "NotTrained",
                out |-> ConfidenceOutcome(is_trained, fitted, x),
                after_train |-> train_completed]
    /\ UNCHANGED <<ensVars, train_completed>>

Importance ==
    /\ last' = [op |-> "get_feature_importance", x |-> "none",
                status |-> IF is_trained THEN "ok" ELSE "empty",
                out |-> ImportanceOutcome(is_trained, feature_names, fitted),
                after_train |-> train_completed]
    /\ UNCHANGED <<ensVars, train_completed>>

(***************************************************************************)
(* MLEnsemble inference calls of concurrent threads: a call checks         *)
(* is_trained, then reads the four members one after the other             *)
(***************************************************************************)
Threads == {1, 2}
ConcurrentOps == {"predict", "calculate_confidence"}
ConcurrentRows == {"up", "down"}

\* step 0: no call in flight; 1: before the is_trained check;
\* 2..5: before the read of member step - 1
IdleCall == [op |-> "none", x |-> "none", step |-> 0, acc |-> <<>>, out |-> "none"]

BeginCall(t, op, x) ==
    /\ calls[t].step = 0
    /\ calls' = [calls EXCEPT ![t] =
                    [op |-> op, x |-> x, step |-> 1, acc |-> <<>>, out |-> "pending"]]
    /\ UNCHANGED <<ensVars, last, train_completed, trained0>>

\* if not self.is_trained: raise ValueError
CheckTrained(t) ==
    /\ calls[t].step = 1
    /\ calls' = [calls EXCEPT ![t] =
                    IF is_trained THEN [@ EXCEPT !.step = 2]
                    ELSE [@ EXCEPT !.step = 0, !.out = "NotTrained"]]
    /\ UNCHANGED <<ensVars, last, train_completed, trained0>>

\* the value a call returns from the four member predictions it has read
CallResult(op, acc) ==
    LET ip == [m \in MemberSet |->
                 acc[CHOOSE j \in 1..Len(Members) : Members[j] = m]]
    IN  IF op = "predict" THEN WeightedSum(ip) ELSE ConfidenceOf(ip)

\* variant: reading a member refits it on the other training table
ReadMemberRefits(t) ==
    LET c == calls[t]
        m == Members[c.step - 1]
        acc2 == Append(c.acc, MemberPredict(m, fitted[m], c.x))
    IN
    /\ c.step \in 2..(Len(Members) + 1)
    /\ calls' = [calls EXCEPT ![t] =
                    IF c.step = Len(Members) + 1
                    THEN [c EXCEPT !.step = 0, !.acc = acc2,
                                   !.out = CallResult(c.op, acc2)]
                    ELSE [c EXCEPT !.step = c.step + 1, !.acc = acc2]]
    /\ fitted' = [fitted EXCEPT ![m] = 3 - @]
    /\ UNCHANGED <<is_trained, feature_names, last, train_completed, trained0>>

\* <member>.predict(X) of the next member; after the fourth read the call
\* combines the predictions and returns.  The members are only read.
ReadMember(t) ==
    LET c == calls[t]
        m == Members[c.step - 1]
        acc2 == Append(c.acc, MemberPredict(m, fitted[m], c.x))
    IN
    /\ c.step \in 2..(Len(Members) + 1)
    /\ calls' = [calls EXCEPT ![t] =
                    IF c.step = Len(Members) + 1
                    THEN [c EXCEPT !.step = 0, !.acc = acc2,
                                   !.out = CallResult(c.op, acc2)]
                    ELSE [c EXCEPT !.step = c.step + 1, !.acc = acc2]]
    /\ UNCHANGED <<ensVars, last, train_completed, trained0>>

(***************************************************************************)
(* backtesting.py: Backtester                                              *)
(***************************************************************************)
VARIABLES
    pc,                \* "idle": constructed; "loop": in the trading loop of
                       \* run_backtest, before bar i; "done": returned;
                       \* "raised": run_backtest raised
    initial_capital,   \* Backtester.initial_capital
    commission,        \* Backtester.commission
    trades,            \* Backtester.trades, the ledger
    i,                 \* loop index of run_backtest
    cash, shares, position, entry_price,
    portfolio_values, daily_returns,
    y_last,            \* y_test.iloc[-1], 0 until run_backtest reads the end
    result             \* the dictionary run_backtest returns, <<>> before

btVars == <<pc, initial_capital, commission, trades, i, cash, shares, position,
            entry_price, portfolio_values, daily_returns, y_last, result>>

\* closing prices of y_test
Prices == {100, 102, 104}
\* the rows and closing prices of a run over a flat market
LongRows == {"up", "edge_up", "down"}
LongPrices == {100}
\* initial_capital a Backtester is built with (default 10000.0)
Capitals == {10000}
\* commission fractions a Backtester is built with
Commissions == {RZero, Rat(1, 4)}

\* expected_return > 0.002 and expected_return < -0.002, in units of 1e-6
BuyThreshold == 2000
SellThreshold == -2000
\* a floor above the lowest confidence calculate_confidence returns
ConfidenceFloorAbove == Rat(7, 10)
\* pred_confidence >= 0.60
ConfidenceFloor == Rat(3, 5)
\* the hard-coded 10 of the time-based exit
MaxHoldBars == 10

Buys(trs) == SelectSeq(trs, LAMBDA t : t.action = "BUY")
Sells(trs) == SelectSeq(trs, LAMBDA t : t.action = "SELL")

\* current_price >= entry_price * 1.02
TakeProfit(price, entry) == price * 100 >= entry * 102
\* current_price <= entry_price * 0.985
StopLoss(price, entry) == price * 1000 <= entry * 985
\* expected_return < -0.002 and pred_confidence >= 0.60
BearishSignal(pred, conf) == pred < SellThreshold /\ RLe(ConfidenceFloor, conf)
\* last_buy_idx = len([t for t in self.trades if t['action'] == 'BUY']) - 1
LastBuyIdx(trs) == Len(Buys(trs)) - 1
\* a time-based exit one bar later
TimeExitLate(bar, trs) == Len(trs) > 0 /\ bar - LastBuyIdx(trs) > MaxHoldBars
\* len(self.trades) > 0 and i - last_buy_idx >= 10
TimeExit(bar, trs) == Len(trs) > 0 /\ bar - LastBuyIdx(trs) >= MaxHoldBars

\* the if/elif chain of the SELL branch: the reason, "" when should_sell is False
SellReason(price, entry, pred, conf, bar, trs) ==
    IF TakeProfit(price, entry) THEN "take_profit"
    ELSE IF StopLoss(price, entry) THEN "stop_loss"
    ELSE IF BearishSignal(pred, conf) THEN "bearish_signal"
    ELSE IF TimeExit(bar, trs) THEN "time_exit"
    ELSE ""

\* a BUY guard with a non-strict return threshold
BuySignalNonStrict(pred, conf, pos) ==
    pred >= BuyThreshold /\ RLe(ConfidenceFloor, conf) /\ pos # "LONG"

\* the guard of the BUY branch
BuySignal(pred, conf, pos) ==
    pred > BuyThreshold /\ RLe(ConfidenceFloor, conf) /\ pos # "LONG"

\* price * (1 + commission) and price * (1 - commission)
BuyCost(price, comm) == RMul(RInt(price), RAdd(ROne, comm))
SellPrice(price, comm) == RMul(RInt(price), RSub(ROne, comm))
\* a profit that leaves the commission of the BUY out
ProfitGross(sh, price, entry, comm) ==
    RMul(sh, RSub(SellPrice(price, comm), RInt(entry)))

\* shares * (sell_price - entry_price * (1 + commission))
Profit(sh, price, entry, comm) ==
    RMul(sh, RSub(SellPrice(price, comm), BuyCost(entry, comm)))

\* current_price * (1 + predicted_return)
PredictedPrice(price, pred) == RMul(RInt(price), Rat(1000000 + pred, 1000000))

\* the trading state after a BUY: all cash is spent at price * (1 + commission)
BuyState(cash_now, price, comm) ==
    [shares |-> RDiv(cash_now, BuyCost(price, comm)), cash |-> RZero,
     position |-> "LONG", entry_price |-> price]

\* a SELL that forgets to reset the position
SellStateKeepsPosition(sh, price, comm) ==
    [cash |-> RMul(sh, SellPrice(price, comm)), shares |-> RZero,
     position |-> "LONG"]

\* the trading state after a SELL: all shares are sold at price * (1 - commission)
SellState(sh, price, comm) ==
    [cash |-> RMul(sh, SellPrice(price, comm)), shares |-> RZero,
     position |-> "NONE"]

\* a run that never closes the open position after the loop
FinalExitNever(sh) == FALSE

\* if shares > 0: the open position is closed after the loop
FinalExitNeeded(sh) == RPos(sh)

BuyTrade(bar, price, sh, pred, conf) ==
    [date |-> bar, action |-> "BUY", price |-> price, shares |-> sh,
     predicted_price |-> PredictedPrice(price, pred), confidence |-> conf,
     profit |-> RZero, reason |-> "none"]

SellTrade(bar, price, predicted, conf, profit, reason) ==
    [date |-> bar, action |-> "SELL", price |-> price, shares |-> RZero,
     predicted_price |-> predicted, confidence |-> conf,
     profit |-> profit, reason |-> reason]


(***************************************************************************)
(* Backtester._calculate_metrics                                           *)
(***************************************************************************)
\* variant: the ratio final / initial as a percentage, the capital not deducted
TotalReturnRatio(final, init) == RMul(RDiv(final, init), RInt(100))

\* ((final_value - initial_capital) / initial_capital) * 100
TotalReturn(final, init) == RMul(RSub(RDiv(final, init), ROne), RInt(100))

\* sign of the annualized return: (final/initial)^(1/num_years) - 1 has the
\* sign of final/initial - 1 when num_years > 0 and final_value > 0
AnnualizedReturnSign(pvs, final, init) ==
    IF Len(pvs) > 0 /\ RPos(final) THEN RSign(RSub(RDiv(final, init), ROne)) ELSE 0

\* sign of the Sharpe ratio: 0 with fewer than two daily returns or zero
\* standard deviation, else the sign of the mean daily return
SharpeSign(drs) ==
    IF Len(drs) > 1
    THEN IF \E j, k \in 1..Len(drs) : drs[j] # drs[k]
         THEN RSign(RSum(drs))
         ELSE 0
    ELSE 0

\* the drawdown loop: the largest (peak - value) / peak, peak from initial_capital
RECURSIVE DrawdownFrom(_, _, _)
DrawdownFrom(pvs, peak, maxdd) ==
    IF pvs = <<>> THEN maxdd
    ELSE LET value == Head(pvs)
             peak2 == IF RLt(peak, value) THEN value ELSE peak
             dd == IF RPos(peak2) THEN RSub(ROne, RDiv(value, peak2)) ELSE RZero
         IN  DrawdownFrom(Tail(pvs), peak2, IF RLt(maxdd, dd) THEN dd ELSE maxdd)

MaxDrawdown(pvs, init) == DrawdownFrom(pvs, init, RZero)

WinningTrades(trs) == SelectSeq(Sells(trs), LAMBDA t : RPos(t.profit))
LosingTrades(trs) == SelectSeq(Sells(trs), LAMBDA t : RSign(t.profit) < 0)

RECURSIVE SumProfit(_)
SumProfit(trs) ==
    IF trs = <<>> THEN RZero ELSE RAdd(Head(trs).profit, SumProfit(Tail(trs)))

GrossProfit(trs) == SumProfit(WinningTrades(trs))
GrossLoss(trs) == RAbs(SumProfit(LosingTrades(trs)))

\* the sentinel for "no losses"
ProfitFactorSentinel == 999

\* variant: no sentinel, 1.0 whenever there is no loss
ProfitFactorNoSentinel(gross_profit, gross_loss) ==
    IF RPos(gross_loss) THEN RDiv(gross_profit, gross_loss) ELSE ROne

ProfitFactorOf(gross_profit, gross_loss) ==
    IF RPos(gross_loss) THEN RDiv(gross_profit, gross_loss)
    ELSE IF RPos(gross_profit) THEN RInt(ProfitFactorSentinel)
    ELSE ROne

WinRate(trs) ==
    IF Len(Sells(trs)) > 0
    THEN Rat(Len(WinningTrades(trs)) * 100, Len(Sells(trs)))
    ELSE RZero

AvgWin(trs) ==
    IF Len(WinningTrades(trs)) > 0
    THEN RDiv(GrossProfit(trs), RInt(Len(WinningTrades(trs))))
    ELSE RZero

AvgLoss(trs) ==
    IF Len(LosingTrades(trs)) > 0
    THEN RDiv(GrossLoss(trs), RInt(Len(LosingTrades(trs))))
    ELSE RZero

Expectancy(trs) ==
    IF Len(Sells(trs)) > 0
    THEN LET w == RDiv(WinRate(trs), RInt(100))
         IN  RSub(RMul(w, AvgWin(trs)), RMul(RSub(ROne, w), AvgLoss(trs)))
    ELSE RZero

\* _calculate_total_commission: price * shares * commission over the BUYs
RECURSIVE TotalCommission(_, _)
TotalCommission(trs, comm) ==
    IF trs = <<>> THEN RZero
    ELSE RAdd(IF Head(trs).action = "BUY"
              THEN RMul(RMul(RInt(Head(trs).price), Head(trs).shares), comm)
              ELSE RZero,
              TotalCommission(Tail(trs), comm))

CalculateMetrics(pvs, drs, final, trs, init, comm) ==
    [total_return |-> TotalReturn(final, init),
     annualized_return_sign |-> AnnualizedReturnSign(pvs, final, init),
     sharpe_ratio_sign |-> SharpeSign(drs),
     max_drawdown |-> RMul(MaxDrawdown(pvs, init), RInt(100)),
     win_rate |-> WinRate(trs),
     profit_factor |-> ProfitFactorOf(GrossProfit(trs), GrossLoss(trs)),
     num_trades |-> Len(trs),
     num_wins |-> Len(WinningTrades(trs)),
     num_losses |-> Len(LosingTrades(trs)),
     avg_win |-> AvgWin(trs),
     avg_loss |-> AvgLoss(trs),
     expectancy |-> Expectancy(trs),
     total_commission |-> TotalCommission(trs, comm)]

(***************************************************************************)
(* Backtester.run_backtest                                                 *)
(***************************************************************************)
\* the trained ensemble passed to run_backtest, or an untrained one
InitEnsemble ==
    /\ is_trained \in BOOLEAN
    /\ feature_names = (IF is_trained THEN 1 ELSE 0)
    /\ fitted = [m \in MemberSet |-> IF is_trained THEN 1 ELSE 0]
    /\ last = NoCall
    /\ train_completed = is_trained
    /\ calls = [t \in Threads |-> IdleCall]
    /\ trained0 = <<is_trained, feature_names, fitted>>

\* Backtester.__init__
Init ==
    /\ InitEnsemble
    /\ IdlePipeline
    /\ pc = "idle"
    /\ initial_capital \in {RInt(c) : c \in Capitals}
    /\ commission \in Commissions
    /\ trades = <<>>
    /\ i = 0
    /\ cash = RZero /\ shares = RZero /\ position = "NONE" /\ entry_price = 0
    /\ portfolio_values = <<>> /\ daily_returns = <<>>
    /\ y_last = 0
    /\ result = <<>>

\* model.predict(X_test) on an untrained ensemble raises ValueError
RunRaises ==
    /\ pc = "idle"
    /\ ~is_trained
    /\ pc' = "raised"
    /\ UNCHANGED <<initial_capital, commission, trades, i, cash, shares, position,
                   entry_price, portfolio_values, daily_returns, y_last, result>>
    /\ UNCHANGED <<ensVars, callVars, pipelineVars>>

\* predictions and confidences are computed, the trading state is initialised
RunStart ==
    /\ pc = "idle"
    /\ is_trained
    /\ pc' = "loop"
    /\ cash' = initial_capital
    /\ shares' = RZero
    /\ position' = "NONE"
    /\ trades' = <<>>
    /\ portfolio_values' = <<>>
    /\ daily_returns' = <<>>
    /\ entry_price' = 0
    /\ i' = 0
    /\ UNCHANGED <<initial_capital, commission, y_last, result>>
    /\ UNCHANGED <<ensVars, callVars, pipelineVars>>

\* one iteration of the trading loop, on bar i with feature row x and close
\* price, of a run on at most max_rows rows
Bar(x, current_price, max_rows) ==
    LET predicted_return == EnsemblePredict(fitted, x)
        pred_confidence == CalculateConfidence(fitted, x)
        predicted_price == PredictedPrice(current_price, predicted_return)
        current_value == RAdd(cash, RMul(shares, RInt(current_price)))
        reason == SellReason(current_price, entry_price, predicted_return,
                             pred_confidence, i, trades)
        buy == BuyState(cash, current_price, commission)
        sell == SellState(shares, current_price, commission)
    IN
    /\ pc = "loop"
    /\ i + 2 <= max_rows
    \* the rows of X_test open at most MaxBuys positions
    /\ (BuySignal(predicted_return, pred_confidence, position) /\ RPos(cash))
          => Len(Buys(trades)) < MaxBuys
    /\ portfolio_values' = Append(portfolio_values, current_value)
    /\ daily_returns' =
          IF i > 0
          THEN Append(daily_returns,
                      RSub(RDiv(current_value, portfolio_values[i]), ROne))
          ELSE daily_returns
    /\ IF BuySignal(predicted_return, pred_confidence, position)
       THEN IF RPos(cash)
            THEN /\ shares' = buy.shares
                 /\ cash' = buy.cash
                 /\ position' = buy.position
                 /\ entry_price' = buy.entry_price
                 /\ trades' = Append(trades,
                        BuyTrade(i, current_price, buy.shares, predicted_return,
                                 pred_confidence))
            ELSE UNCHANGED <<shares, cash, position, entry_price, trades>>
       ELSE IF position = "LONG" /\ RPos(shares) /\ reason # ""
            THEN /\ cash' = sell.cash
                 /\ shares' = sell.shares
                 /\ position' = sell.position
                 /\ trades' = Append(trades,
                        SellTrade(i, current_price, predicted_price, pred_confidence,
                                  Profit(shares, current_price, entry_price, commission),
                                  reason))
                 /\ UNCHANGED entry_price
            ELSE UNCHANGED <<shares, cash, position, entry_price, trades>>
    /\ i' = i + 1
    /\ UNCHANGED <<pc, initial_capital, commission, y_last, result>>
    /\ UNCHANGED <<ensVars, callVars, pipelineVars>>

RunBar == \E x \in Rows, p \in Prices : Bar(x, p, MaxRows)

\* after the loop: close the open position at y_test.iloc[-1], compute the
\* metrics and return.  X_test has i + 1 rows, dates[-1] is the date of row i.
Finish(final_price) ==
    LET closing == FinalExitNeeded(shares)
        final_cash == IF closing
                      THEN SellState(shares, final_price, commission).cash
                      ELSE cash
        final_trades ==
            IF closing
            THEN Append(trades,
                    SellTrade(i, final_price, RInt(final_price), Rat(1, 2),
                              Profit(shares, final_price, entry_price, commission),
                              "final_exit"))
            ELSE trades
        final_pvs == Append(portfolio_values, final_cash)
    IN
    /\ pc = "loop"
    /\ y_last' = final_price
    /\ cash' = final_cash
    /\ shares' = (IF closing THEN RZero ELSE shares)
    /\ trades' = final_trades
    /\ portfolio_values' = final_pvs
    /\ result' = [initial_capital |-> initial_capital,
                  final_value |-> final_cash,
                  total_return |-> TotalReturn(final_cash, initial_capital),
                  trades |-> final_trades,
                  metrics |-> CalculateMetrics(final_pvs, daily_returns, final_cash,
                                               final_trades, initial_capital,
                                               commission)]
    /\ pc' = "done"
    /\ UNCHANGED <<initial_capital, commission, i, position, entry_price,
                   daily_returns>>
    /\ UNCHANGED <<ensVars, callVars, pipelineVars>>

RunFinish == \E p \in Prices : Finish(p)

vars == <<is_trained, feature_names, fitted, last, train_completed, calls,
          trained0, pc, initial_capital, commission,
          trades, i, cash, shares, position, entry_price, portfolio_values,
          daily_returns, y_last, result, pipelineVars>>

Next == RunRaises \/ RunStart \/ RunBar \/ RunFinish

Spec == Init /\ [][Next]_vars

\* long runs over a flat market
LongBar == \E x \in LongRows, p \in LongPrices : Bar(x, p, MaxLongRows)
LongFinish == \E p \in LongPrices : Finish(p)

NextLong == RunRaises \/ RunStart \/ LongBar \/ LongFinish

SpecLong == Init /\ [][NextLong]_vars

(***************************************************************************)
(* Specification of repeated runs on one Backtester                        *)
(***************************************************************************)
MaxReruns == 1
MaxRerunRows == 3

\* the rows and closing prices of the repeated runs
RerunRows == {"up", "down"}
RerunPrices == {100}

\* run_backtest is called again on the Backtester whose earlier run returned
\* result: the caller keeps that dictionary, the trading state is initialised
RunAgain ==
    LET reset == LedgerReset(lists, trades_ref, trades)
    IN
    /\ pc = "done"
    /\ Len(returned) < MaxReruns
    /\ returned' = Append(returned, [result EXCEPT !.trades = trades_ref])
    /\ lists' = reset.lists
    /\ trades_ref' = reset.ref
    /\ pc' = "loop"
    /\ cash' = initial_capital
    /\ shares' = RZero
    /\ position' = "NONE"
    /\ trades' = <<>>
    /\ portfolio_values' = <<>>
    /\ daily_returns' = <<>>
    /\ entry_price' = 0
    /\ i' = 0
    /\ UNCHANGED <<initial_capital, commission, y_last, result>>
    /\ UNCHANGED <<ensVars, callVars, feVars, nzVars, tsVars, tiVars, cacheVars,
                   fetchVars, appVars>>

RerunBar == \E x \in RerunRows, p \in RerunPrices : Bar(x, p, MaxRerunRows)
RerunFinish == \E p \in RerunPrices : Finish(p)

NextRerun == RunRaises \/ RunStart \/ RerunBar \/ RerunFinish \/ RunAgain

SpecRerun == Init /\ [][NextRerun]_vars


(***************************************************************************)
(* Specification of _calculate_metrics applied to a ledger                 *)
(***************************************************************************)
\* profits of the closed trades of a ledger
LedgerProfits == {-50, 0, 100, 300}

\* the entries of self.trades: a BUY, or a SELL with its profit
LedgerEntries ==
    {BuyTrade(0, 100, RInt(100), 0, ROne)}
      \cup {SellTrade(1, 100, RInt(100), ROne, RInt(q), "take_profit") :
               q \in LedgerProfits}

Ledgers == UNION {[1..n -> LedgerEntries] : n \in 0..MaxLedger}

\* a Backtester whose self.trades holds some ledger
InitMetrics ==
    /\ InitEnsemble
    /\ IdlePipeline
    /\ pc = "idle"
    /\ initial_capital \in {RInt(c) : c \in Capitals}
    /\ commission \in Commissions
    /\ trades \in Ledgers
    /\ i = 0
    /\ cash = initial_capital /\ shares = RZero /\ position = "NONE"
    /\ entry_price = 0
    /\ portfolio_values = <<initial_capital>> /\ daily_returns = <<>>
    /\ y_last = 0
    /\ result = <<>>

\* self._calculate_metrics(portfolio_values, daily_returns, final_value)
MetricsCall ==
    /\ pc = "idle"
    /\ result' = [metrics |-> CalculateMetrics(portfolio_values, daily_returns,
                                               cash, trades, initial_capital,
                                               commission)]
    /\ pc' = "done"
    /\ UNCHANGED <<initial_capital, commission, trades, i, cash, shares, position,
                   entry_price, portfolio_values, daily_returns, y_last>>
    /\ UNCHANGED <<ensVars, callVars, pipelineVars>>

NextMetrics == MetricsCall

SpecMetrics == InitMetrics /\ [][NextMetrics]_vars

(***************************************************************************)
(* Specification of one MLEnsemble used by a single caller                 *)
(***************************************************************************)
\* MLEnsemble.__init__ (the Backtester is left idle)
IdleBacktester ==
    /\ pc = "idle"
    /\ initial_capital = RInt(10000)
    /\ commission = RZero
    /\ trades = <<>>
    /\ i = 0
    /\ cash = RZero /\ shares = RZero /\ position = "NONE" /\ entry_price = 0
    /\ portfolio_values = <<>> /\ daily_returns = <<>>
    /\ y_last = 0
    /\ result = <<>>

InitEnsembleNew ==
    /\ is_trained = FALSE
    /\ feature_names = 0
    /\ fitted = [m \in MemberSet |-> 0]
    /\ last = NoCall
    /\ train_completed = FALSE
    /\ calls = [t \in Threads |-> IdleCall]
    /\ trained0 = <<is_trained, feature_names, fitted>>
    /\ IdleBacktester
    /\ IdlePipeline

TrainCall ==
    /\ \E d \in DataSets, k \in 0..Len(Members) : Train(d, k)
    /\ UNCHANGED <<calls, trained0, btVars, pipelineVars>>

PredictCall ==
    /\ \E x \in Rows : Predict(x)
    /\ UNCHANGED <<calls, trained0, btVars, pipelineVars>>

ConfidenceCall ==
    /\ \E x \in Rows : Confidence(x)
    /\ UNCHANGED <<calls, trained0, btVars, pipelineVars>>

ImportanceCall ==
    /\ Importance
    /\ UNCHANGED <<calls, trained0, btVars, pipelineVars>>

NextEnsemble == TrainCall \/ PredictCall \/ ConfidenceCall \/ ImportanceCall

SpecEnsemble == InitEnsembleNew /\ [][NextEnsemble]_vars

(***************************************************************************)
(* Specification of calculate_confidence on arbitrary member predictions   *)
(***************************************************************************)
\* values a member may predict for a row, in units of 1e-4
PredValues == {-250, -150, 0, 100, 150, 250}

\* predict(X, return_individual=True) of a trained ensemble on one row
MemberPredictions == [MemberSet -> PredValues]

\* a trained ensemble about to compute the confidence of a row on which its
\* members predict last.x
InitConfidence ==
    /\ is_trained = TRUE
    /\ feature_names = 1
    /\ fitted = [m \in MemberSet |-> 1]
    /\ \E ip \in MemberPredictions :
          last = [op |-> "none", x |-> ip, status |-> "none", out |-> "none",
                  after_train |-> TRUE]
    /\ train_completed = TRUE
    /\ calls = [t \in Threads |-> IdleCall]
    /\ trained0 = <<is_trained, feature_names, fitted>>
    /\ IdleBacktester
    /\ IdlePipeline

\* the mean / std / where / clip of calculate_confidence on that row
ConfidenceOfRow ==
    /\ last.op = "none"
    /\ last' = [last EXCEPT !.op = "calculate_confidence", !.status = "ok",
                            !.out = ConfidenceOf(last.x)]
    /\ UNCHANGED <<ensVars, train_completed, calls, trained0, btVars, pipelineVars>>

NextConfidence == ConfidenceOfRow

SpecConfidence == InitConfidence /\ [][NextConfidence]_vars

\* MLEnsemble.__init__: no ensemble call is made
IdleEnsemble ==
    /\ is_trained = FALSE
    /\ feature_names = 0
    /\ fitted = [m \in MemberSet |-> 0]
    /\ last = NoCall
    /\ train_completed = FALSE
    /\ calls = [t \in Threads |-> IdleCall]
    /\ trained0 = <<is_trained, feature_names, fitted>>

(***************************************************************************)
(* Specification of extract_features applied to a history                  *)
(***************************************************************************)
\* histories are flat at BaseClose up to their last TailBars bars
BaseClose == 100
TailBars == 2
StockCloses == {0, 100, 200}
SpyCloses == {100, 200}

\* the history of n bars that ends with the bars of tail
Frame(n, tail) ==
    LET t == LastOf(tail, n)
    IN  [j \in 1..n |-> IF j <= n - Len(t) THEN BaseClose ELSE t[j - (n - Len(t))]]

Histories ==
    {Frame(n, t) : n \in (MinHistory - 1)..(MinHistory + MaxExtraBars),
                   t \in [1..TailBars -> StockCloses]}

\* the benchmarks passed with a window of n bars: none, one without a close
\* column, one that is a bar short, and the ones of n bars
Benchmarks(n) ==
    {NoBenchmark, BrokenBenchmark(Frame(n, <<>>)), Benchmark(Frame(n - 1, <<>>))}
      \cup {Benchmark(Frame(n, t)) : t \in [1..TailBars -> SpyCloses]}

\* the index argument: the default, the first bars, the 199th, 200th and a
\* later bar
Indexes == {-1, 0, BetaWindow, MinHistory - 2, MinHistory - 1, MinHistory + 1}

InitFeatures ==
    /\ df \in Histories
    /\ index \in Indexes
    /\ spy_df \in Benchmarks(Len(Window(df, index)))
    /\ extracted = NotExtracted
    /\ look_forward = 1 /\ raising = {}
    /\ fe_pc = "idle" /\ row_i = 0
    /\ features_list = <<>> /\ returns_targets = <<>>
    /\ dates = <<>> /\ current_prices = <<>>
    /\ IdleNormalize
    /\ IdleService
    /\ IdleEnsemble
    /\ IdleBacktester

\* extract_features(df, index, spy_df)
ExtractCall ==
    /\ extracted.status = "none"
    /\ extracted' = ExtractFeatures(df, index, spy_df)
    /\ UNCHANGED <<df, spy_df, index, look_forward, raising, fe_pc, row_i,
                   features_list, returns_targets, dates, current_prices>>
    /\ UNCHANGED <<nzVars, serviceVars, ensVars, callVars, btVars>>

NextFeatures == ExtractCall

SpecFeatures == InitFeatures /\ [][NextFeatures]_vars

(***************************************************************************)
(* feature_engineering.py: engineer_dataset                                *)
(***************************************************************************)
\* variant: the whole benchmark is handed to every row
SpySliceWhole(spy, row) == spy

\* spy_slice = spy_df.iloc[:i + 1] if i < len(spy_df) else spy_df (None when
\* there is no benchmark)
SpySlice(spy, row) ==
    IF spy.given /\ row < Len(spy.close)
    THEN [spy EXCEPT !.close = SliceTo(@, row + 1)]
    ELSE spy

\* variant: the target always looks one bar ahead
TargetNextBar(frame, row, forward) ==
    XDiv(XSub(XInt(frame[row + 2]), XInt(frame[row + 1])), XInt(frame[row + 1]))

\* (future_price - current_price) / current_price
TargetReturn(frame, row, forward) ==
    XDiv(XSub(XInt(frame[row + forward + 1]), XInt(frame[row + 1])),
         XInt(frame[row + 1]))

\* the call extract_features(df, i, spy_df=spy_slice) of iteration i; it
\* raises at the bars of the set bad
RowFeatures(frame, row, spy, bad) ==
    IF row \in bad THEN [status |-> "raised", features |-> <<>>]
    ELSE ExtractFeatures(frame, row, SpySlice(spy, row))

DatasetCloses == {100, 200}
DatasetHistories ==
    {Frame(n, t) : n \in (MinHistory - 1)..(MinHistory + MaxExtraBars),
                   t \in [1..TailBars -> DatasetCloses]}

\* benchmarks passed with a history of n bars: none, of n bars, two bars short
DatasetBenchmarks(n) ==
    {NoBenchmark}
      \cup {Benchmark(Frame(m, t)) : m \in {n - 2, n}, t \in [1..TailBars -> SpyCloses]}

LookForwards == {1, 2}

\* the sets of bars whose extraction raises
RaisingSets == SUBSET {MinHistory, MinHistory + 1}

InitDataset ==
    /\ df \in DatasetHistories
    /\ spy_df \in DatasetBenchmarks(Len(df))
    /\ look_forward \in LookForwards
    /\ raising \in RaisingSets
    /\ index = -1 /\ extracted = NotExtracted
    /\ fe_pc = "idle" /\ row_i = 0
    /\ features_list = <<>> /\ returns_targets = <<>>
    /\ dates = <<>> /\ current_prices = <<>>
    /\ IdleNormalize
    /\ IdleService
    /\ IdleEnsemble
    /\ IdleBacktester

\* the four lists are created and the loop starts at index 200
DatasetStart ==
    /\ fe_pc = "idle"
    /\ fe_pc' = "loop"
    /\ row_i' = MinHistory
    /\ features_list' = <<>> /\ returns_targets' = <<>>
    /\ dates' = <<>> /\ current_prices' = <<>>
    /\ UNCHANGED <<df, spy_df, index, extracted, look_forward, raising>>
    /\ UNCHANGED <<nzVars, serviceVars, ensVars, callVars, btVars>>

\* one iteration of the loop: the body of the try, or the except branch.
\* The target, price and date of a bar inside the frame do not raise.
DatasetRow ==
    LET feature_dict == RowFeatures(df, row_i, spy_df, raising)
    IN
    /\ fe_pc = "loop"
    /\ row_i < Len(df) - look_forward
    /\ IF feature_dict.status = "ok"
       THEN /\ features_list' = Append(features_list, feature_dict.features)
            /\ returns_targets' =
                  Append(returns_targets, TargetReturn(df, row_i, look_forward))
            /\ current_prices' = Append(current_prices, df[row_i + 1])
            /\ dates' = Append(dates, row_i)
       ELSE UNCHANGED <<features_list, returns_targets, current_prices, dates>>
    /\ row_i' = row_i + 1
    /\ UNCHANGED <<df, spy_df, index, extracted, look_forward, raising, fe_pc>>
    /\ UNCHANGED <<nzVars, serviceVars, ensVars, callVars, btVars>>

\* the loop is over: the four sequences are returned
DatasetReturn ==
    /\ fe_pc = "loop"
    /\ row_i >= Len(df) - look_forward
    /\ fe_pc' = "done"
    /\ UNCHANGED <<df, spy_df, index, extracted, look_forward, raising, row_i,
                   features_list, returns_targets, dates, current_prices>>
    /\ UNCHANGED <<nzVars, serviceVars, ensVars, callVars, btVars>>

NextDataset == DatasetStart \/ DatasetRow \/ DatasetReturn

SpecDataset == InitDataset /\ [][NextDataset]_vars

(***************************************************************************)
(* Specification of the normalization step of the prediction pipeline     *)
(***************************************************************************)
FeatureValues == {0, 10, 30}

FeatureTables == UNION {[1..n -> FeatureValues] : n \in 1..MaxTableRows}

InitNormalize ==
    /\ X \in FeatureTables
    /\ normalized = <<>>
    /\ IdleFeatures
    /\ IdleService
    /\ IdleEnsemble
    /\ IdleBacktester

\* lines 454-463 of the predict endpoint, lines 31-51 of test_backtest.py
NormalizeStep ==
    /\ normalized = <<>>
    /\ normalized' = NormalizeAndSplit(X)
    /\ UNCHANGED <<X, feVars, serviceVars, ensVars, callVars, btVars>>

NextNormalize == NormalizeStep

SpecNormalize == InitNormalize /\ [][NextNormalize]_vars

(***************************************************************************)
(* Specification of one TimeSeriesModels object                            *)
(***************************************************************************)
MaxSeries == 2
SeriesPrices == {100, 104}
ForecastPrices == {98, 106}
ForecastSteps == {1, 5, 7}

\* the price series passed to train
PriceSeries == UNION {[1..n -> SeriesPrices] : n \in 0..MaxSeries}

\* what a forecast of a fitted member does
ForecastOutcomes ==
    {[raises |-> TRUE, value |-> 0]}
      \cup {[raises |-> FALSE, value |-> v] : v \in ForecastPrices}

InitTimeSeries ==
    /\ IdleTimeSeries
    /\ IdleIndicators
    /\ IdleMore
    /\ IdleFeatures
    /\ IdleNormalize
    /\ IdleEnsemble
    /\ IdleBacktester

\* train(prices): the series is stored, then each member is fitted
TsTrainOn(series, es_ok, arima_ok) ==
    /\ prices' = PricesOf(series)
    /\ es_model' = FitMember(series, es_ok)
    /\ arima_model' = FitMember(series, arima_ok)
    /\ ts_call' = NoForecastCall
    /\ predictions' = NoPredictions
    /\ UNCHANGED <<tiVars, moreVars, feVars, nzVars, ensVars, callVars, btVars>>

TsTrain ==
    \E series \in PriceSeries, es_ok \in BOOLEAN, arima_ok \in BOOLEAN :
        TsTrainOn(series, es_ok, arima_ok)

\* predict(steps)
TsPredict ==
    \E steps \in ForecastSteps, es_out \in ForecastOutcomes,
       arima_out \in ForecastOutcomes :
        /\ ts_call' = [steps |-> steps, es |-> es_out, arima |-> arima_out]
        /\ predictions' =
               PredictOf(es_model, arima_model, prices, steps, es_out, arima_out)
        /\ UNCHANGED <<es_model, arima_model, prices>>
        /\ UNCHANGED <<tiVars, moreVars, feVars, nzVars, ensVars, callVars, btVars>>

NextTimeSeries == TsTrain \/ TsPredict

SpecTimeSeries == InitTimeSeries /\ [][NextTimeSeries]_vars

(***************************************************************************)
(* Specification of the TechnicalIndicators functions applied to a frame   *)
(***************************************************************************)
\* frames are flat at FlatBar up to their last bars, which are drawn from
\* TailBarSet
FlatBar == [high |-> 100, low |-> 100, close |-> 100, volume |-> 10]
TailBarSet ==
    {FlatBar,
     [high |-> 110, low |-> 90, close |-> 92, volume |-> 20],
     [high |-> 120, low |-> 100, close |-> 120, volume |-> 0]}
OhlcvTailBars == 2

\* the frame of n bars that ends with the bars of tail
OhlcvFrame(n, tail) ==
    LET t == LastOf(tail, n)
    IN  [j \in 1..n |-> IF j <= n - Len(t) THEN FlatBar ELSE t[j - (n - Len(t))]]

\* the lengths around the minimum periods of the indicators
FrameLengths ==
    {0, 1, StochasticK - 1, StochasticK, RsiPeriod + 1, BollingerPeriod - 1,
     BollingerPeriod, MacdSlow + MacdSignal - 1, MacdSlow + MacdSignal}

OhlcvFrames ==
    {OhlcvFrame(n, t) : n \in FrameLengths,
                        t \in UNION {[1..k -> TailBarSet] : k \in 0..OhlcvTailBars}}

InitIndicators ==
    /\ ohlcv \in OhlcvFrames
    /\ ti_fn = "none"
    /\ ti_out = NoIndicatorCall
    /\ IdleTimeSeries
    /\ IdleMore
    /\ IdleFeatures
    /\ IdleNormalize
    /\ IdleEnsemble
    /\ IdleBacktester

\* the call of one function on the frame
IndicatorCall(fn, outcome) ==
    /\ ti_fn = "none"
    /\ ti_fn' = fn
    /\ ti_out' = outcome
    /\ UNCHANGED ohlcv
    /\ UNCHANGED <<tsVars, moreVars, feVars, nzVars, ensVars, callVars, btVars>>

CallAll == IndicatorCall("calculate_all", ReturnsOrRaises(CalculateAll(ohlcv)))

CallRsi ==
    IndicatorCall("calculate_rsi",
                  Returns(CalculateRsi(Column(ohlcv, "close"), RsiPeriod)))

CallMacd ==
    IndicatorCall("calculate_macd",
                  Returns(CalculateMacd(Column(ohlcv, "close"),
                                        MacdFast, MacdSlow, MacdSignal)))

CallBollingerBands ==
    IndicatorCall("calculate_bollinger_bands",
                  Returns(CalculateBollingerBands(Column(ohlcv, "close"),
                                                  BollingerPeriod, 2)))

CallMovingAverages ==
    IndicatorCall("calculate_moving_averages",
                  ReturnsOrRaises(CalculateMovingAverages(Column(ohlcv, "close"))))

CallStochastic ==
    IndicatorCall("calculate_stochastic",
                  Returns(CalculateStochastic(ohlcv, StochasticK, StochasticD)))

CallVwap == IndicatorCall("calculate_vwap", Returns(CalculateVwap(ohlcv)))

CallAdx == IndicatorCall("calculate_adx", Returns(CalculateAdx(ohlcv, AdxPeriod)))

CallWilliamsR ==
    IndicatorCall("calculate_williams_r",
                  Returns(CalculateWilliamsR(ohlcv, WilliamsPeriod)))

CallCci == IndicatorCall("calculate_cci", Returns(CalculateCci(ohlcv, CciPeriod)))

NextIndicators ==
    \/ CallAll
    \/ CallRsi
    \/ CallMacd
    \/ CallBollingerBands
    \/ CallMovingAverages
    \/ CallStochastic
    \/ CallVwap
    \/ CallAdx
    \/ CallWilliamsR
    \/ CallCci

SpecIndicators == InitIndicators /\ [][NextIndicators]_vars

(***************************************************************************)
(* Specification of _calculate_overall_signal applied to the signals of    *)
(* the nine indicators                                                     *)
(***************************************************************************)
\* the values the indicator functions give the fields that are voted on
SignalValues == {"oversold", "overbought", "neutral"}
TrendValues == {"bullish", "bearish", "neutral"}
BandPositions == {"below", "above", "middle"}
VwapPositions == {"above", "below"}
AdxTrends == {"strong_uptrend", "uptrend", "strong_downtrend", "downtrend", "no_trend"}

InitSignals ==
    /\ IdleIndicators
    /\ IdleTimeSeries
    /\ IdleMore
    /\ IdleFeatures
    /\ IdleNormalize
    /\ IdleEnsemble
    /\ IdleBacktester

\* _calculate_overall_signal(indicators) on one combination of signals
CallOverallSignal ==
    /\ ti_fn = "none"
    /\ \E rsi \in SignalValues, macd \in TrendValues, bb \in BandPositions,
          ma \in TrendValues, stochastic \in SignalValues, vwap \in VwapPositions,
          adx \in AdxTrends, williams \in SignalValues, cci \in SignalValues :
           LET indicators ==
                   [rsi |-> [signal |-> rsi], macd |-> [trend |-> macd],
                    bollingerBands |-> [position |-> bb],
                    movingAverages |-> [trend |-> ma],
                    stochastic |-> [signal |-> stochastic],
                    vwap |-> [position |-> vwap], adx |-> [trend |-> adx],
                    williamsR |-> [signal |-> williams], cci |-> [signal |-> cci]]
           IN  IndicatorCall("_calculate_overall_signal",
                             [status |-> "ok",
                              out |-> [indicators |-> indicators,
                                       overallSignal |-> CalculateOverallSignal(indicators)]])

NextSignals == CallOverallSignal

SpecSignals == InitSignals /\ [][NextSignals]_vars

(***************************************************************************)
(* Specification of one SimpleCache used by a single caller                *)
(***************************************************************************)
MaxClock == 3

\* the variables of the modules specified above, and their initial state
coreVars == <<tsVars, tiVars, feVars, nzVars, ensVars, callVars, btVars, extraVars>>

IdleCore ==
    /\ IdleExtra
    /\ IdleTimeSeries
    /\ IdleIndicators
    /\ IdleFeatures
    /\ IdleNormalize
    /\ IdleEnsemble
    /\ IdleBacktester

InitCache == IdleCache /\ IdleCore

\* the entry of key was taken out by delete or clear
Removed(ls, keys) ==
    [k \in CacheKeys |-> IF k \in keys THEN [ls[k] EXCEPT !.removed = TRUE] ELSE ls[k]]

\* the keys whose entry left the dictionary
Dropped(c, c2) == {k \in CacheKeys : c[k].present /\ ~c2[k].present}

\* get(key)
CacheGetCall ==
    \E key \in CacheKeys :
        LET got == CacheGet(cache, key, now)
        IN  /\ cache' = got.cache
            /\ cache_out' = [op |-> "get", key |-> key,
                             hit |-> got.hit, value |-> got.value]
            /\ last_set' = Removed(last_set, Dropped(cache, got.cache))
            /\ UNCHANGED <<now, cache_threads, ever_set, coreVars>>

\* set(key, value, ttl)
CacheSetCall ==
    \E key \in CacheKeys, value \in CacheValues, ttl \in Ttls :
        /\ cache' = CacheSet(cache, key, value, ttl, now)
        /\ cache_out' = [op |-> "set", key |-> key, hit |-> FALSE, value |-> 0]
        /\ last_set' = [last_set EXCEPT ![key] =
                           [any |-> TRUE, value |-> value, at |-> now,
                            ttl |-> ttl, removed |-> FALSE]]
        /\ UNCHANGED <<now, cache_threads, ever_set, coreVars>>

\* delete(key)
CacheDeleteCall ==
    \E key \in CacheKeys :
        /\ cache' = CacheDelete(cache, key)
        /\ cache_out' = [op |-> "delete", key |-> key, hit |-> FALSE, value |-> 0]
        /\ last_set' = Removed(last_set, {key})
        /\ UNCHANGED <<now, cache_threads, ever_set, coreVars>>

\* clear()
CacheClearCall ==
    /\ cache' = CacheClear(cache)
    /\ cache_out' = [op |-> "clear", key |-> "none", hit |-> FALSE, value |-> 0]
    /\ last_set' = Removed(last_set, CacheKeys)
    /\ UNCHANGED <<now, cache_threads, ever_set, coreVars>>

\* cleanup_expired()
CacheCleanupCall ==
    /\ cache' = CacheCleanupExpired(cache, now)
    /\ cache_out' = [op |-> "cleanup_expired", key |-> "none",
                     hit |-> FALSE, value |-> 0]
    /\ last_set' = Removed(last_set, Dropped(cache, cache'))
    /\ UNCHANGED <<now, cache_threads, ever_set, coreVars>>

\* time passes
CacheTick ==
    /\ now < MaxClock
    /\ now' = now + 1
    /\ UNCHANGED <<cache, cache_out, last_set, cache_threads, ever_set, coreVars>>

NextCache ==
    \/ CacheGetCall
    \/ CacheSetCall
    \/ CacheDeleteCall
    \/ CacheClearCall
    \/ CacheCleanupCall
    \/ CacheTick

SpecCache == InitCache /\ [][NextCache]_vars

(***************************************************************************)
(* Specification of one SimpleCache shared by two threads.  The class      *)
(* takes no lock: a thread can be preempted between any two dictionary     *)
(* operations of a method, each of which is atomic.                        *)
(***************************************************************************)
\* the dictionaries the threads can find: each key absent, or set earlier
StartEntries ==
    {NoEntry} \cup {[present |-> TRUE, value |-> v, expires_at |-> e] :
                       v \in CacheValues, e \in Ttls}

\* the calls a thread can make
CacheCalls ==
    {[op |-> o, key |-> k, value |-> 0, ttl |-> 0] :
        o \in {"get", "delete"}, k \in CacheKeys}
      \cup {[op |-> "set", key |-> k, value |-> v, ttl |-> l] :
               k \in CacheKeys, v \in CacheValues, l \in Ttls}
      \cup {[op |-> o, key |-> "none", value |-> 0, ttl |-> 0] :
               o \in {"clear", "cleanup_expired"}}

PresentKeys(c) == {k \in CacheKeys : c[k].present}

InitCacheThreads ==
    /\ cache \in [CacheKeys -> StartEntries]
    /\ ever_set = [k \in CacheKeys |-> IF cache[k].present THEN {cache[k].value} ELSE {}]
    /\ now = 0
    /\ cache_out = NoCacheCall
    /\ last_set = [k \in CacheKeys |-> NeverSet]
    /\ cache_threads = [t \in CacheThreads |-> IdleThread]
    /\ IdleCore

\* the thread goes on with th as its state
CacheThreadStep(t, th) ==
    /\ cache_threads' = [cache_threads EXCEPT ![t] = th]
    /\ UNCHANGED <<now, cache_out, last_set, coreVars>>

CacheThreadReturns(th, hit, value) ==
    [th EXCEPT !.pc = "done", !.status = "returned", !.hit = hit, !.value = value]

CacheThreadRaises(th, error) == [th EXCEPT !.pc = "done", !.status = error]

\* a thread enters a method
CacheThreadCall(t) ==
    \E call \in CacheCalls :
        /\ cache_threads[t].status = "idle"
        /\ CacheThreadStep(t, [IdleThread EXCEPT
               !.op = call.op, !.key = call.key, !.value = call.value,
               !.current_time = call.ttl, !.status = "running",
               !.pc = CASE call.op \in {"get", "delete"} -> "contains"
                        [] call.op = "set" -> "store"
                        [] call.op = "clear" -> "clear"
                        [] call.op = "cleanup_expired" -> "time"])
        /\ UNCHANGED <<cache, ever_set>>

\* if key not in self._cache / if key in self._cache
CacheThreadContains(t) ==
    LET th == cache_threads[t]
    IN  /\ th.pc = "contains"
        /\ CacheThreadStep(t, IF ~cache[th.key].present THEN CacheThreadReturns(th, FALSE, 0)
                         ELSE [th EXCEPT !.pc = IF th.op = "get" THEN "read" ELSE "del"])
        /\ UNCHANGED <<cache, ever_set>>

\* entry = self._cache[key]
CacheThreadRead(t) ==
    LET th == cache_threads[t]
    IN  /\ th.pc = "read"
        /\ CacheThreadStep(t, IF ~cache[th.key].present THEN CacheThreadRaises(th, "KeyError")
                         ELSE [th EXCEPT !.pc = "compare", !.entry = cache[th.key]])
        /\ UNCHANGED <<cache, ever_set>>

\* if time.time() > entry['expires_at'] ... return entry['value']
CacheThreadCompare(t) ==
    LET th == cache_threads[t]
    IN  /\ th.pc = "compare"
        /\ CacheThreadStep(t, IF Expired(th.entry, now) THEN [th EXCEPT !.pc = "del"]
                         ELSE CacheThreadReturns(th, TRUE, th.entry.value))
        /\ UNCHANGED <<cache, ever_set>>

\* del self._cache[key] of get and of delete
CacheThreadDel(t) ==
    LET th == cache_threads[t]
    IN  /\ th.pc = "del"
        /\ IF ~cache[th.key].present
           THEN /\ CacheThreadStep(t, CacheThreadRaises(th, "KeyError"))
                /\ UNCHANGED cache
           ELSE /\ CacheThreadStep(t, CacheThreadReturns(th, FALSE, 0))
                /\ cache' = CacheDelete(cache, th.key)
        /\ UNCHANGED ever_set

\* self._cache[key] = {...}
CacheThreadStore(t) ==
    LET th == cache_threads[t]
    IN  /\ th.pc = "store"
        /\ cache' = CacheSet(cache, th.key, th.value, th.current_time, now)
        /\ ever_set' = [ever_set EXCEPT ![th.key] = @ \cup {th.value}]
        /\ CacheThreadStep(t, CacheThreadReturns(th, FALSE, 0))

\* self._cache.clear()
CacheThreadClear(t) ==
    LET th == cache_threads[t]
    IN  /\ th.pc = "clear"
        /\ cache' = CacheClear(cache)
        /\ CacheThreadStep(t, CacheThreadReturns(th, FALSE, 0))
        /\ UNCHANGED ever_set

\* current_time = time.time(), and the iterator of self._cache.items()
CacheThreadTime(t) ==
    LET th == cache_threads[t]
    IN  /\ th.pc = "time"
        /\ CacheThreadStep(t, [th EXCEPT !.pc = "iterate", !.current_time = now,
                                    !.size = Cardinality(PresentKeys(cache)),
                                    !.todo = PresentKeys(cache)])
        /\ UNCHANGED <<cache, ever_set>>

\* one step of the list comprehension: the iterator raises when the
\* dictionary changed size since the iteration began
CacheThreadIterate(t) ==
    LET th == cache_threads[t]
    IN  /\ th.pc = "iterate"
        /\ IF Cardinality(PresentKeys(cache)) # th.size
           THEN CacheThreadStep(t, CacheThreadRaises(th, "RuntimeError"))
           ELSE IF th.todo \cap PresentKeys(cache) = {}
           THEN CacheThreadStep(t, IF th.expired_keys = {} THEN CacheThreadReturns(th, FALSE, 0)
                              ELSE [th EXCEPT !.pc = "delkeys"])
           ELSE \E k \in th.todo \cap PresentKeys(cache) :
                    CacheThreadStep(t, [th EXCEPT
                        !.todo = @ \ {k},
                        !.expired_keys =
                            IF Expired(cache[k], th.current_time)
                            THEN @ \cup {k} ELSE @])
        /\ UNCHANGED <<cache, ever_set>>

\* for key in expired_keys: del self._cache[key]
CacheThreadDelKeys(t) ==
    LET th == cache_threads[t]
    IN  /\ th.pc = "delkeys"
        /\ \E k \in th.expired_keys :
               IF ~cache[k].present
               THEN /\ CacheThreadStep(t, CacheThreadRaises(th, "KeyError"))
                    /\ UNCHANGED cache
               ELSE /\ cache' = CacheDelete(cache, k)
                    /\ CacheThreadStep(t, IF th.expired_keys = {k}
                                     THEN CacheThreadReturns(th, FALSE, 0)
                                     ELSE [th EXCEPT !.expired_keys = @ \ {k}])
        /\ UNCHANGED ever_set

\* time passes
CacheThreadTick ==
    /\ now < MaxClock
    /\ now' = now + 1
    /\ UNCHANGED <<cache, cache_out, last_set, cache_threads, ever_set, coreVars>>

NextCacheThreads ==
    \/ \E t \in CacheThreads : CacheThreadCall(t)
    \/ \E t \in CacheThreads : CacheThreadContains(t)
    \/ \E t \in CacheThreads : CacheThreadRead(t)
    \/ \E t \in CacheThreads : CacheThreadCompare(t)
    \/ \E t \in CacheThreads : CacheThreadDel(t)
    \/ \E t \in CacheThreads : CacheThreadStore(t)
    \/ \E t \in CacheThreads : CacheThreadClear(t)
    \/ \E t \in CacheThreads : CacheThreadTime(t)
    \/ \E t \in CacheThreads : CacheThreadIterate(t)
    \/ \E t \in CacheThreads : CacheThreadDelKeys(t)
    \/ CacheThreadTick

SpecCacheThreads == InitCacheThreads /\ [][NextCacheThreads]_vars

(***************************************************************************)
(* Specification of fetch_historical_data against the data provider        *)
(***************************************************************************)
MaxRetries == 3

\* the variables of the modules other than the fetcher, and their initial state
besideFetcher ==
    <<cacheVars, tsVars, tiVars, feVars, nzVars, ensVars, callVars, btVars, runVars,
      appVars>>

InitFetcher ==
    /\ IdleFetcher
    /\ IdleRuns
    /\ IdleApp
    /\ IdleCache
    /\ IdleTimeSeries
    /\ IdleIndicators
    /\ IdleFeatures
    /\ IdleNormalize
    /\ IdleEnsemble
    /\ IdleBacktester

\* the numbers of bars the provider answers with
ProviderRows == {0, 2}

\* the except branch of the loop: sleep and go on, or raise on the last attempt
FetchExcept(f) ==
    IF HasNextAttempt(f.attempt, f.max_retries)
    THEN [f EXCEPT !.attempt = f.attempt + 1, !.pc = "download",
                   !.log = Append(f.log, "error")]
    ELSE [f EXCEPT !.pc = "done", !.status = "ValueError",
                   !.log = Append(f.log, "error")]

\* a call of fetch_historical_data(symbol, days, max_retries) begins
FetchCall ==
    \E max_retries \in 0..MaxRetries :
        /\ fetcher.pc \in {"idle", "done"}
        /\ fetcher' = [pc |-> IF HasNextAttempt(0, max_retries) THEN "download" ELSE "finish",
                       max_retries |-> max_retries, attempt |-> 1, frame |-> NoFrame,
                       downloads |-> 0, tickers |-> 0, log |-> <<>>,
                       status |-> "running", result |-> NoFrame]
        /\ UNCHANGED besideFetcher

\* yf.download answers, or raises
FetchDownload ==
    /\ fetcher.pc = "download"
    /\ LET f == [fetcher EXCEPT !.downloads = fetcher.downloads + 1]
       IN  \/ \E rows \in ProviderRows :
                LET frame == DownloadFrame(rows, f.attempt)
                IN  fetcher' = IF ~Empty(frame)
                               THEN [f EXCEPT !.frame = frame, !.pc = "finish",
                                              !.log = Append(f.log, "data")]
                               ELSE [f EXCEPT !.frame = frame, !.pc = "ticker"]
           \/ fetcher' = FetchExcept(f)
    /\ UNCHANGED besideFetcher

\* yf.Ticker(symbol).history answers, or raises
FetchTicker ==
    /\ fetcher.pc = "ticker"
    /\ LET f == [fetcher EXCEPT !.tickers = fetcher.tickers + 1]
       IN  \/ \E rows \in ProviderRows :
                LET frame == TickerFrame(rows, f.attempt)
                IN  fetcher' =
                        IF ~Empty(frame)
                        THEN [f EXCEPT !.frame = frame, !.pc = "finish",
                                       !.log = Append(f.log, "fallback")]
                        ELSE [f EXCEPT !.frame = frame,
                                       !.attempt = f.attempt + 1,
                                       !.pc = IF HasNextAttempt(f.attempt, f.max_retries)
                                              THEN "download" ELSE "finish",
                                       !.log = Append(f.log, "empty")]
           \/ fetcher' = FetchExcept(f)
    /\ UNCHANGED besideFetcher

\* after the loop: raise on no data, else standardize and return
FetchFinish ==
    /\ fetcher.pc = "finish"
    /\ fetcher' =
          IF fetcher.frame.none \/ Empty(fetcher.frame)
          THEN [fetcher EXCEPT !.pc = "done", !.status = "ValueError"]
          ELSE LET out == StandardizeDataframe(fetcher.frame)
               IN  [fetcher EXCEPT !.pc = "done", !.status = out.status,
                                   !.result = out.frame]
    /\ UNCHANGED besideFetcher

FetchStep == FetchDownload \/ FetchTicker \/ FetchFinish

NextFetcher ==
    \/ FetchCall
    \/ FetchDownload
    \/ FetchTicker
    \/ FetchFinish

\* every provider call answers or raises, and the sleeps between attempts end
SpecFetcher == InitFetcher /\ [][NextFetcher]_vars /\ WF_vars(FetchStep)

(***************************************************************************)
(* Specification of POST /predict over the number of bars fetched          *)
(***************************************************************************)
MaxFetchedBars == 252

\* what fetch_historical_data does: it raises, or returns a non-empty frame
FetchOutcomes ==
    {[status |-> "ValueError", rows |-> 0]}
      \cup {[status |-> "returned", rows |-> n] : n \in 1..MaxFetchedBars}

InitPredict ==
    /\ IdleApp
    /\ IdleFetcher
    /\ IdleRuns
    /\ IdleCache
    /\ IdleTimeSeries
    /\ IdleIndicators
    /\ IdleFeatures
    /\ IdleNormalize
    /\ IdleEnsemble
    /\ IdleBacktester

\* one request is answered
PredictRequest ==
    \E fetched \in FetchOutcomes, rest \in {"returned", "raised"} :
        /\ request' = [made |-> TRUE, fetched |-> fetched, rest |-> rest]
        /\ response' = PredictEndpoint(fetched, rest)
        /\ UNCHANGED <<cacheVars, tsVars, tiVars, feVars, nzVars, ensVars, callVars,
                       btVars, runVars, fetchVars>>

NextPredict == PredictRequest

SpecPredict == InitPredict /\ [][NextPredict]_vars

(***************************************************************************)
(* Specification of concurrent inference calls after a completed train     *)
(***************************************************************************)
\* the fitted states reachable once a train has completed: all members on
\* one table, or a later train on another table that raised part-way
TrainedFits ==
    {[m \in MemberSet |-> IF \E j \in 1..k : Members[j] = m THEN d2 ELSE d1] :
        d1 \in DataSets, d2 \in DataSets, k \in 0..Len(Members)}

InitConcurrent ==
    /\ is_trained = TRUE
    /\ feature_names \in DataSets
    /\ fitted \in TrainedFits
    /\ last = NoCall
    /\ train_completed = TRUE
    /\ calls = [t \in Threads |-> IdleCall]
    /\ trained0 = <<is_trained, feature_names, fitted>>
    /\ IdleBacktester
    /\ IdlePipeline

ThreadBegin ==
    /\ \E t \in Threads, op \in ConcurrentOps, x \in ConcurrentRows : BeginCall(t, op, x)
    /\ UNCHANGED <<btVars, pipelineVars>>

ThreadCheck ==
    /\ \E t \in Threads : CheckTrained(t)
    /\ UNCHANGED <<btVars, pipelineVars>>

ThreadRead ==
    /\ \E t \in Threads : ReadMember(t)
    /\ UNCHANGED <<btVars, pipelineVars>>

NextConcurrent == ThreadBegin \/ ThreadCheck \/ ThreadRead

SpecConcurrent == InitConcurrent /\ [][NextConcurrent]_vars


(***************************************************************************)
(* Properties of Backtester.run_backtest                                   *)
(***************************************************************************)
LastTrade == trades[Len(trades)]
TradeLogged(action) ==
    Len(trades') = Len(trades) + 1 /\ trades'[Len(trades')].action = action

\* C1: at every bar boundary of run_backtest the simulator is either FLAT
\* (no shares, all value in cash) or LONG (shares held, no cash); it starts
\* FLAT with cash = initial_capital; the ledger alternates BUY, SELL, BUY, ...
\* starting with BUY, and #BUY - #SELL is 1 exactly when LONG and 0 otherwise.
C1_FlatOrLong ==
    pc = "loop" =>
        LET FLAT == shares = RZero /\ RPos(cash) /\ position = "NONE"
            LONG == RPos(shares) /\ cash = RZero /\ position = "LONG"
        IN  /\ FLAT \/ LONG
            /\ ~(FLAT /\ LONG)
            /\ i = 0 => (FLAT /\ cash = initial_capital /\ trades = <<>>)
            /\ \A k \in 1..Len(trades) :
                  trades[k].action = (IF k % 2 = 1 THEN "BUY" ELSE "SELL")
            /\ Len(Buys(trades)) - Len(Sells(trades)) = (IF LONG THEN 1 ELSE 0)

\* a second position is open after a completed round trip
C1_Witness ==
    /\ pc = "loop"
    /\ Len(trades) = 3
    /\ position = "LONG"
    /\ RPos(shares)

LastBuyBar(trs) ==
    IF Len(Buys(trs)) = 0 THEN -1 ELSE Buys(trs)[Len(Buys(trs))].date

\* the first exit trigger that holds at a bar, in the documented order, the
\* time trigger being "at least 10 bars since the last BUY"; "" if none
FirstTrigger(price, entry, pred, conf, bar, trs) ==
    IF price * 100 >= entry * 102 THEN "take_profit"
    ELSE IF price * 1000 <= entry * 985 THEN "stop_loss"
    ELSE IF pred < -2000 /\ RLe(Rat(60, 100), conf) THEN "bearish_signal"
    ELSE IF bar - LastBuyBar(trs) >= 10 THEN "time_exit"
    ELSE ""

\* C3: while LONG, the exits are checked in the order take-profit, stop-loss,
\* bearish reversal, time exit (10 bars since the last BUY); a SELL is logged
\* exactly when some trigger holds, it carries the reason of the first
\* trigger that holds, all shares are sold and the simulator becomes FLAT.
C3_ExitOrder ==
    [][\A x \in LongRows, p \in LongPrices :
          (Bar(x, p, MaxLongRows) /\ position = "LONG" /\ RPos(shares)) =>
             LET first == FirstTrigger(p, entry_price, EnsemblePredict(fitted, x),
                                       CalculateConfidence(fitted, x), i, trades)
             IN  /\ TradeLogged("SELL") <=> first # ""
                 /\ TradeLogged("SELL") =>
                       /\ trades'[Len(trades')].reason = first
                       /\ shares' = RZero
                       /\ position' = "NONE"
      ]_vars

\* C4: a SELL with reason time_exit is logged only when at least 10 bars have
\* elapsed since the bar of the most recent BUY, for every position of a run.
C4_TimeExitAfterTenBars ==
    \A k \in 1..Len(trades) :
        trades[k].reason = "time_exit" =>
            trades[k].date - LastBuyBar(SubSeq(trades, 1, k - 1)) >= 10

\* C5: when run_backtest returns no position is open: shares = 0, the ledger
\* has as many SELLs as BUYs, final_value is the cash balance, and a SELL
\* with reason final_exit, priced at the last element of the price series, is
\* the last ledger entry exactly when the simulator was LONG after the last
\* evaluated bar; there is no final_exit entry otherwise.
C5_NoOpenPositionAtReturn ==
    [][\A p \in Prices :
          Finish(p) =>
             LET long == RPos(shares) /\ position = "LONG"
                 n == Len(trades')
                 closed == n > 0 /\ trades'[n].reason = "final_exit"
             IN  /\ pc' = "done"
                 /\ shares' = RZero
                 /\ Len(Sells(trades')) = Len(Buys(trades'))
                 /\ result'.final_value = cash'
                 /\ result'.trades = trades'
                 /\ closed <=> long
                 /\ closed =>
                       /\ trades'[n].action = "SELL"
                       /\ trades'[n].price = p
                       /\ y_last' = p
                       /\ SubSeq(trades', 1, n - 1) = trades
                       /\ cash' = RMul(shares, RMul(RInt(p), RSub(ROne, commission)))
                 /\ ~closed => trades' = trades /\ cash' = cash
                 /\ \A k \in 1..n : trades'[k].reason = "final_exit" => k = n
      ]_vars

\* run_backtest has returned after closing a second position at the final price
C5_Witness ==
    /\ pc = "done"
    /\ Len(trades) = 4
    /\ LastTrade.reason = "final_exit"
    /\ LastTrade.price = y_last
    /\ shares = RZero
    /\ result.final_value = cash

\* C6: a run on which the BUY condition is never met (a single feature row
\* included) returns, with an empty ledger, final_value = initial_capital,
\* total_return = 0, win_rate = 0, profit_factor = 1, expectancy = 0,
\* sharpe_ratio = 0 and max_drawdown = 0.
C6_NoTradeRun ==
    (pc = "done" /\ Buys(trades) = <<>>) =>
        /\ result.trades = <<>>
        /\ result.final_value = initial_capital
        /\ result.total_return = RZero
        /\ result.metrics.total_return = RZero
        /\ result.metrics.win_rate = RZero
        /\ result.metrics.profit_factor = ROne
        /\ result.metrics.expectancy = RZero
        /\ result.metrics.sharpe_ratio_sign = 0
        /\ result.metrics.max_drawdown = RZero
        /\ result.metrics.num_trades = 0

\* a run over four rows whose prices moved has returned without any trade
C6_Witness ==
    /\ pc = "done"
    /\ trades = <<>>
    /\ i = MaxRows - 1
    /\ Len(daily_returns) > 1
    /\ y_last # 100
    /\ result.metrics.profit_factor = ROne

\* C7: for every ledger, with gross_profit the sum of the positive SELL
\* profits and gross_loss the absolute sum of the negative SELL profits, the
\* profit_factor metric is gross_profit / gross_loss when gross_loss > 0, the
\* sentinel 999 when gross_loss = 0 and gross_profit > 0, and 1 when both are
\* 0 (300/0 gives 999, 0/0 gives 1, 100/50 gives 2).
C7_ProfitFactor ==
    (pc = "done" /\ result # <<>>) =>
        LET sold(k) == trades[k].action = "SELL"
            gp == RSum([k \in 1..Len(trades) |->
                          IF sold(k) /\ RPos(trades[k].profit)
                          THEN trades[k].profit ELSE RZero])
            gl == RSum([k \in 1..Len(trades) |->
                          IF sold(k) /\ ~RPos(trades[k].profit)
                          THEN RAbs(trades[k].profit) ELSE RZero])
            pf == result.metrics.profit_factor
        IN  /\ RPos(gl) => RMul(pf, gl) = gp
            /\ (gl = RZero /\ RPos(gp)) => pf = RInt(999)
            /\ (gl = RZero /\ gp = RZero) => pf = ROne
            /\ (gp = RInt(300) /\ gl = RZero) => pf = RInt(999)
            /\ (gp = RInt(100) /\ gl = RInt(50)) => pf = RInt(2)

\* the metrics of a ledger without losses and with a profit of 300
C7_Witness ==
    /\ pc = "done"
    /\ result # <<>>
    /\ Len(trades) = 3
    /\ trades[1].action = "BUY"
    /\ trades[2].profit = RInt(300)
    /\ trades[3].profit = RZero
    /\ result.metrics.profit_factor = RInt(999)

(***************************************************************************)
(* Properties of MLEnsemble                                                *)
(***************************************************************************)
\* C8: as long as no train call has completed (a train whose fit raised
\* included) predict and calculate_confidence fail with the not-trained
\* error and get_feature_importance returns an empty mapping; is_trained
\* becomes true only after all four members have been fitted, never reverts
\* to false, and from then on predict and calculate_confidence succeed.
C8_NotTrainedUntilFitted ==
    /\ [](/\ is_trained <=> train_completed
          /\ is_trained => \A m \in MemberSet : fitted[m] # 0
          /\ last.op \in {"predict", "calculate_confidence"} =>
                /\ last.status = (IF last.after_train THEN "ok" ELSE "NotTrained")
                /\ last.status = "ok" =>
                      last.out = (IF last.op = "predict"
                                  THEN WeightedSum(IndividualPreds(fitted, last.x))
                                  ELSE ConfidenceOf(IndividualPreds(fitted, last.x)))
          /\ last.op = "get_feature_importance" =>
                last.status = (IF last.after_train THEN "ok" ELSE "empty"))
    /\ [][is_trained => is_trained']_vars

\* predict fails with the not-trained error after a train whose third fit raised
C8_Witness ==
    /\ ~is_trained
    /\ fitted["linear"] # 0 /\ fitted["lasso"] # 0 /\ fitted["random_forest"] = 0
    /\ last.op = "predict"
    /\ last.status = "NotTrained"

\* C9: once the first train has completed the model is immutable: no later
\* public operation (train, predict, calculate_confidence,
\* get_feature_importance) changes the fitted members, the feature names or
\* the value predict returns for a fixed input.
C9_ImmutableAfterFirstFit ==
    [][train_completed =>
          /\ fitted' = fitted
          /\ feature_names' = feature_names
          /\ \A x \in Rows : PredictOutcome(is_trained', fitted', x)
                                 = PredictOutcome(is_trained, fitted, x)
      ]_vars

\* C10: after a completed train, under any interleaving of concurrent
\* predict and calculate_confidence calls the model state (is_trained,
\* feature_names, fitted members) is unchanged and every call returns what
\* it would return if run alone.
C10_ConcurrentInference ==
    /\ <<is_trained, feature_names, fitted>> = trained0
    /\ \A t \in Threads :
          (calls[t].op # "none" /\ calls[t].step = 0) =>
             calls[t].out =
                IF calls[t].op = "predict"
                THEN PredictOutcome(trained0[1], trained0[3], calls[t].x)
                ELSE ConfidenceOutcome(trained0[1], trained0[3], calls[t].x)

\* a predict call has returned while a calculate_confidence call of the other
\* thread is between two member reads
C10_Witness ==
    /\ calls[1].op = "predict" /\ calls[1].step = 0
    /\ calls[1].out = PredictOutcome(TRUE, fitted, calls[1].x)
    /\ calls[2].op = "calculate_confidence" /\ calls[2].step = 4

\* C11: calculate_confidence returns clamp(1 - CV, 0.60, 0.95) with CV =
\* std/|mean| of the four member predictions when |mean| > 0.01 and 1.0
\* otherwise: every confidence lies in [0.60, 0.95], is 0.60 when |mean| <=
\* 0.01 and 0.95 when all members agree on a value with |mean| > 0.01.
\* (With S the sum and D = 4 * sum of squares - S^2, CV = sqrt(D) / |S|; the
\* square root is resolved to the integer below it.)
C11_ConfidenceClamp ==
    last.op = "calculate_confidence" =>
        LET ip == last.x
            c == last.out
            S == RSum([k \in 1..Len(Members) |-> RInt(ip[Members[k]])]).n
            D == 4 * RSum([k \in 1..Len(Members) |->
                             RInt(ip[Members[k]] * ip[Members[k]])]).n - S * S
            guarded == Abs(S) > 400
            r == RMul(RSub(ROne, c), RInt(Abs(S)))
            agree == \A m \in MemberSet : ip[m] = ip["linear"]
        IN  /\ RLe(Rat(60, 100), c) /\ RLe(c, Rat(95, 100))
            /\ ~guarded => c = Rat(60, 100)
            /\ (guarded /\ agree) => c = Rat(95, 100)
            /\ guarded =>
                  /\ c = Rat(60, 100) <=> 25 * D >= 4 * S * S
                  /\ c = Rat(95, 100) <=> 400 * D <= S * S
                  /\ (RLt(Rat(60, 100), c) /\ RLt(c, Rat(95, 100))) =>
                        /\ r.d = 1
                        /\ r.n * r.n <= D
                        /\ D < (r.n + 1) * (r.n + 1)

\* a row on which the members disagree moderately: confidence 0.75
C11_Witness ==
    /\ last.op = "calculate_confidence"
    /\ last.x["linear"] = 150 /\ last.x["gradient_boosting"] = 250
    /\ last.out = Rat(3, 4)

(***************************************************************************)
(* Properties of feature_engineering.py                                    *)
(***************************************************************************)
\* C16: extract_features(df, index) fails with the insufficient-history
\* error whenever the window of bars ending at index (bars 0..index of df)
\* has fewer than 200 bars, and succeeds whenever it has at least 200.
C16_InsufficientHistory ==
    extracted.status # "none" =>
        IF Len(Window(df, index)) < 200
        THEN extracted.status = "InsufficientHistory"
        ELSE extracted.status = "ok"

\* the names of the features of the model
FeatureNames ==
    {"log_return_1d", "log_return_5d", "log_return_21d",
     "market_residual_return", "beta_to_spy", "relative_strength_vs_spy"}

\* C17: whenever extract_features succeeds every value of the feature
\* vector is finite, a feature whose computation gave NaN or +/-Inf being
\* replaced by 0.0, and the feature names are the same on every successful
\* call, with or without a benchmark.
C17_FiniteFeatures ==
    extracted.status = "ok" =>
        LET raw == RawFeatures(Window(df, index), spy_df)
        IN  /\ DOMAIN extracted.features = FeatureNames
            /\ \A key \in FeatureNames :
                  /\ extracted.features[key].k \in {"num", "log"}
                  /\ raw[key].k \in {"nan", "inf"} =>
                        extracted.features[key] = XInt(0)
                  /\ raw[key].k \notin {"nan", "inf"} =>
                        extracted.features[key] = raw[key]

\* a history whose close rose from 0: the one-day log return is infinite and
\* the beta is NaN before the final step
C17_Witness ==
    /\ extracted.status = "ok"
    /\ index = -1
    /\ At(df, 2) = 0 /\ At(df, 1) = 100
    /\ spy_df.given /\ spy_df.ok /\ Len(spy_df.close) = Len(df)
    /\ At(spy_df.close, 1) = 200
    /\ RawFeatures(df, spy_df)["log_return_1d"] = XInf(1)
    /\ RawFeatures(df, spy_df)["beta_to_spy"] = XNaN
    /\ extracted.features["log_return_1d"] = XInt(0)
    /\ extracted.features["beta_to_spy"] = XInt(0)

\* C18: when the benchmark is missing, shorter than the stock window,
\* degenerate (zero variance of its returns over the trailing 21
\* observations) or its processing raises, extract_features does not fail and
\* returns beta_to_spy = 1.0, market_residual_return = 0.0 and
\* relative_strength_vs_spy = 0.0.
C18_BenchmarkDefaults ==
    (extracted.status # "none" /\ Len(df) >= 200 /\ Window(df, index) # <<>>) =>
        LET window == Window(df, index)
            recent == LastOf(PctChange(spy_df.close), 21)
            missing == ~spy_df.given
            shorter == spy_df.given /\ Len(spy_df.close) < Len(window)
            broken == spy_df.given /\ ~spy_df.ok
            degenerate == /\ spy_df.given /\ spy_df.ok
                          /\ Len(spy_df.close) >= Len(window)
                          /\ Len(spy_df.close) >= 22
                          /\ \A j \in 1..Len(recent) : recent[j] = recent[1]
        IN  (missing \/ shorter \/ broken \/ degenerate) =>
               /\ extracted.status = "ok"
               /\ extracted.features["beta_to_spy"] = XInt(1)
               /\ extracted.features["market_residual_return"] = XInt(0)
               /\ extracted.features["relative_strength_vs_spy"] = XInt(0)

\* the histories and benchmarks that have the lengths of df and spy_df and
\* agree with them on bars 0..row
AgreeingHistories(row) ==
    {h \in DatasetHistories :
        /\ Len(h) = Len(df)
        /\ \A j \in 1..(row + 1) : h[j] = df[j]}
AgreeingBenchmarks(row) ==
    {b \in DatasetBenchmarks(Len(df)) :
        /\ b.given = spy_df.given
        /\ Len(b.close) = Len(spy_df.close)
        /\ \A j \in 1..Len(b.close) : j <= row + 1 => b.close[j] = spy_df.close[j]}

\* C12: the feature vector of row i of engineer_dataset depends only on bars
\* 0..i of the price history and of the benchmark: inputs of equal lengths
\* that agree on bars 0..i and differ later give the same vector for row i.
C12_NoLookAhead ==
    [][DatasetRow =>
          (Len(features_list') > Len(features_list) =>
              \A h \in AgreeingHistories(row_i), b \in AgreeingBenchmarks(row_i) :
                  LET other == RowFeatures(h, row_i, b, raising)
                  IN  /\ other.status = "ok"
                      /\ other.features = features_list'[Len(features_list')])
      ]_vars

\* row 201 of a history of 203 bars was extracted with a benchmark that moved
\* on that bar, and an agreeing history and benchmark differ on the bar after
C12_Witness ==
    /\ Len(features_list) = 2 /\ dates[2] = 201
    /\ Len(df) = 203
    /\ spy_df.given /\ Len(spy_df.close) = 203
    /\ features_list[2]["beta_to_spy"] # XInt(1)
    /\ \E h \in AgreeingHistories(201) : h # df
    /\ \E b \in AgreeingBenchmarks(201) : b # spy_df

\* C14: the four sequences of engineer_dataset have the same length, are in
\* increasing bar order and describe at position k the same bar i in
\* 200..len(df)-look_forward-1, with target (close[i+look_forward] -
\* close[i]) / close[i], reference price close[i] and date date[i], also when
\* rows raise and are skipped; nothing skipped gives
\* max(0, len(df) - look_forward - 200) rows.
C14_AlignedSequences ==
    fe_pc \in {"loop", "done"} =>
        LET n == Len(features_list)
            last_row == Len(df) - look_forward - 1
        IN  /\ Len(returns_targets) = n /\ Len(dates) = n
            /\ Len(current_prices) = n
            /\ \A k \in 1..n :
                  LET bar == dates[k]
                  IN  /\ bar \in 200..last_row
                      /\ k > 1 => dates[k - 1] < bar
                      /\ current_prices[k] = df[bar + 1]
                      /\ RMul(returns_targets[k].q, RInt(df[bar + 1]))
                            = RInt(df[bar + look_forward + 1] - df[bar + 1])
                      /\ features_list[k]
                            = ExtractFeatures(df, bar, SpySlice(spy_df, bar)).features
            /\ fe_pc = "done" =>
                  /\ {dates[k] : k \in 1..n} = (200..last_row) \ raising
                  /\ raising = {} =>
                        n = (IF Len(df) - look_forward - 200 > 0
                             THEN Len(df) - look_forward - 200 ELSE 0)

\* a dataset whose first row was skipped and whose second row was kept
C14_Witness ==
    /\ fe_pc = "done"
    /\ raising = {200}
    /\ dates = <<201>>
    /\ current_prices = <<100>>
    /\ returns_targets[1] = XInt(1)
    /\ Len(features_list) = 1

\* C15: when no row at all is produced (a history of at most 200 +
\* look_forward bars, or every extraction fails) engineer_dataset reports
\* InsufficientHistory instead of returning an empty dataset.
C15_EmptyDatasetReported ==
    fe_pc = "done" => features_list # <<>>

\* C13: the mean and std used to normalize training and held-out rows are
\* computed from the training slice only: changing the feature values of
\* held-out rows leaves the statistics and every normalized training row
\* unchanged.
C13_TrainingStatisticsOnly ==
    normalized # <<>> =>
        \A other \in FeatureTables :
            (/\ Len(other) = Len(X)
             /\ \A k \in 1..normalized.split_idx : other[k] = X[k]) =>
                /\ NormalizeAndSplit(other).means = normalized.means
                /\ NormalizeAndSplit(other).stds = normalized.stds
                /\ NormalizeAndSplit(other).X_train = normalized.X_train

\* C19: after train on a non-empty series, predict does not raise whatever
\* fits and forecasts failed; a member that is None or whose forecast raised
\* contributes the last price of the series, the ensemble price is the mean
\* of the two member prices, and it is the last price when both members fail.
C19_ForecastFallback ==
    (prices.given /\ prices.values # <<>> /\ predictions.status # "none") =>
        LET last_price == prices.values[Len(prices.values)]
            es_fails == ~es_model.fitted \/ ts_call.es.raises
            arima_fails == ~arima_model.fitted \/ ts_call.arima.raises
        IN  /\ predictions.status = "ok"
            /\ es_fails => predictions.es = last_price
            /\ arima_fails => predictions.arima = last_price
            /\ RMul(RInt(2), predictions.ensemble)
                   = RInt(predictions.es + predictions.arima)
            /\ (es_fails /\ arima_fails) => predictions.ensemble = RInt(last_price)

\* the exponential smoothing fit failed, the ARIMA forecast raised, and the
\* prediction of a series that moved was returned
C19_Witness ==
    /\ prices.given /\ Len(prices.values) = 2
    /\ prices.values[1] # prices.values[2]
    /\ ~es_model.fitted
    /\ arima_model.fitted /\ ts_call.arima.raises
    /\ predictions.status = "ok"
    /\ predictions.ensemble = RInt(prices.values[2])

\* C20: on a frame with fewer bars than the minimum period of an indicator,
\* the empty frame included, the indicator function returns its neutral
\* record (RSI 50, MACD 0/0/0 neutral, Stochastic 50/50, ADX 0, Williams %R
\* -50, CCI 0, VWAP 0 on the empty frame) and no function raises, so that
\* calculate_all returns on every frame that is too short for an indicator.
C20_NeutralOnShortFrames ==
    LET n == Len(ohlcv)
        out == ti_out.out
    IN  /\ (ti_fn = "calculate_rsi" /\ n < RsiPeriod + 1) =>
               /\ ti_out.status = "ok"
               /\ out.value = RInt(50) /\ out.signal = "neutral"
        /\ (ti_fn = "calculate_macd" /\ n < MacdSlow + MacdSignal) =>
               /\ ti_out.status = "ok"
               /\ out.macd = RZero /\ out.signal = RZero /\ out.histogram = RZero
               /\ out.trend = "neutral"
        /\ (ti_fn = "calculate_stochastic" /\ n < StochasticK) =>
               /\ ti_out.status = "ok"
               /\ out.k = XInt(50) /\ out.d = XInt(50) /\ out.signal = "neutral"
        /\ (ti_fn = "calculate_adx" /\ n < AdxPeriod + 1) =>
               /\ ti_out.status = "ok"
               /\ out.adx = RZero /\ out.trend = "no_trend"
        /\ (ti_fn = "calculate_williams_r" /\ n < WilliamsPeriod) =>
               /\ ti_out.status = "ok"
               /\ out.value = RInt(-50) /\ out.signal = "neutral"
        /\ (ti_fn = "calculate_cci" /\ n < CciPeriod) =>
               /\ ti_out.status = "ok"
               /\ out.value = RZero /\ out.signal = "neutral"
        /\ (ti_fn = "calculate_vwap" /\ n = 0) =>
               /\ ti_out.status = "ok"
               /\ out.vwap = RZero
        /\ (ti_fn = "calculate_bollinger_bands" /\ n < BollingerPeriod) =>
               /\ ti_out.status = "ok"
               /\ out.bandwidth = NoRoot /\ out.position = "middle"
        /\ (ti_fn = "calculate_moving_averages" /\ n < MacdFast) =>
               ti_out.status = "ok"
        /\ (ti_fn = "calculate_all" /\ n < MacdSlow + MacdSignal) =>
               ti_out.status = "ok"

\* C25: with one caller, get(key) at time t returns v exactly when the most
\* recent set of key stored v, its entry was not removed since by delete,
\* clear or an expiry removal, and t is not later than the time of that set
\* plus its ttl, and returns None otherwise; a get that finds the entry
\* expired removes it; a set replaces value and expiry; cleanup_expired
\* removes the expired entries and leaves the others unchanged.
C25_CacheSemantics ==
    [][LET call == cache_out'
           Live(k) == last_set[k].any /\ ~last_set[k].removed
           Deadline(k) == last_set[k].at + last_set[k].ttl
       IN  now' = now =>
             /\ call.op = "get" =>
                  /\ call.hit <=> (Live(call.key) /\ now <= Deadline(call.key))
                  /\ call.hit => call.value = last_set[call.key].value
                  /\ (Live(call.key) /\ now > Deadline(call.key))
                        => ~cache'[call.key].present
             /\ call.op = "set" =>
                  cache'[call.key] =
                      [present |-> TRUE, value |-> last_set'[call.key].value,
                       expires_at |-> now + last_set'[call.key].ttl]
             /\ call.op = "cleanup_expired" =>
                  \A k \in CacheKeys :
                      IF Live(k) /\ now <= Deadline(k)
                      THEN cache'[k] = [present |-> TRUE, value |-> last_set[k].value,
                                        expires_at |-> Deadline(k)]
                      ELSE ~cache'[k].present
      ]_vars

\* a get at the very time the entry expires returned the value
C25_Witness ==
    /\ cache_out.op = "get" /\ cache_out.hit
    /\ last_set[cache_out.key].ttl = 2
    /\ now = last_set[cache_out.key].at + last_set[cache_out.key].ttl

\* C21: whatever the interleaving of the threads' get, set, delete, clear and
\* cleanup_expired calls, no call raises, and a get returns None or a value
\* that was set for its key.
C21_ThreadSafe ==
    \A t \in CacheThreads :
        LET th == cache_threads[t]
        IN  /\ th.status \in {"idle", "running", "returned"}
            /\ (th.status = "returned" /\ th.op = "get" /\ th.hit)
                  => th.value \in ever_set[th.key]

\* C22: fetch_historical_data ends after at most max_retries attempts, each
\* of one download call and at most one Ticker call; it stops at the first
\* attempt with data and returns that data standardized, never an empty
\* frame; when no attempt yields data it raises ValueError
C22_Successes == {"data", "fallback"}

C22_FetchBounded ==
    LET f == fetcher
        n == Len(f.log)
    IN  /\ n <= f.max_retries
        /\ f.downloads <= f.max_retries
        /\ f.tickers <= f.downloads
        /\ f.downloads <= n + 1
        /\ \A at \in 1..n : f.log[at] \in C22_Successes => at = n
        /\ f.status \in {"idle", "running", "returned", "ValueError"}
        /\ f.status = "returned" =>
              /\ n >= 1
              /\ f.log[n] \in C22_Successes
              /\ f.result.rows > 0
              /\ f.result.columns = RequiredColumns
              /\ f.result.of = n
              /\ f.result.via = (IF f.log[n] = "data" THEN "download" ELSE "ticker")
        /\ f.status = "ValueError" =>
              \A at \in 1..n : f.log[at] \notin C22_Successes
        /\ (f.pc = "done" /\ \A at \in 1..n : f.log[at] \notin C22_Successes) =>
              f.status = "ValueError"

C22_FetchTerminates ==
    /\ []C22_FetchBounded
    /\ (fetcher.status = "running") ~> (fetcher.status \in {"returned", "ValueError"})

\* a call that returns the Ticker data of its third attempt, after an
\* exception and an empty attempt
C22_Witness ==
    /\ fetcher.status = "returned"
    /\ fetcher.log = <<"error", "empty", "fallback">>
    /\ fetcher.max_retries = 3

C24_EarlierLedgers ==
    [k \in 1..Len(returned) |-> Deref(lists, trades_ref, trades, returned[k].trades)]

\* C24: within a run the ledger only grows by appending; a further run on the
\* same Backtester starts from an empty ledger, and the trade list of every
\* dictionary returned earlier stays as it was returned
C24_LedgerOwnedByRun ==
    [][/\ (pc = "loop" /\ ~RunAgain) =>
              /\ Len(trades') >= Len(trades)
              /\ SubSeq(trades', 1, Len(trades)) = trades
       /\ RunAgain =>
              /\ trades' = <<>>
              /\ C24_EarlierLedgers'[Len(returned')] = result.trades
       /\ \A k \in 1..Len(returned) : C24_EarlierLedgers'[k] = C24_EarlierLedgers[k]
      ]_vars

\* a second run has logged a trade while the first run's result holds trades
C24_Witness ==
    /\ Len(returned) >= 1
    /\ Len(C24_EarlierLedgers[1]) >= 2
    /\ Len(trades) >= 1
    /\ trades # SubSeq(C24_EarlierLedgers[1], 1, Len(trades))

\* C26: the profit of every SELL, the final exit included, is the cash right
\* after the SELL minus the cash right before the matching BUY (the portfolio
\* value recorded at the BUY's bar, when no shares were held); the profits of
\* the SELLs of a run add up to final_value - initial_capital
C26_ProfitIsCashDifference ==
    [][/\ TradeLogged("SELL") =>
              LET buy == trades[Len(trades)]
                  sell == trades'[Len(trades')]
              IN  /\ buy.action = "BUY"
                  /\ sell.profit = RSub(cash', portfolio_values[buy.date + 1])
       /\ (pc = "loop" /\ pc' = "done") =>
              SumProfit(Sells(result'.trades))
                  = RSub(result'.final_value, result'.initial_capital)
      ]_vars

\* a returned run with commission whose two positions were closed at a
\* profit or a loss, the second one by the final exit
C26_Witness ==
    /\ pc = "done"
    /\ commission # RZero
    /\ Len(Sells(trades)) = 2
    /\ trades[Len(trades)].reason = "final_exit"
    /\ \A k \in 1..2 : Sells(trades)[k].profit # RZero

\* confidences of the range calculate_confidence returns, its ends included
C27_Confidences == {Rat(3, 5), Rat(3, 4), Rat(19, 20)}

C28_MembersOnLatestSeries ==
    \A m \in {es_model, arima_model} :
        m.fitted => (prices.given /\ m.on = prices.values)

\* C28: after any sequence of train calls every member is either None or the
\* model fitted on the series of the latest train: a train stores its series,
\* a fit that succeeds yields the model of that series and a fit that fails
\* leaves None; the fallback price of predict is the last value of that
\* series, and predict before any train raises
C28_TrainReplacesMembers ==
    /\ []C28_MembersOnLatestSeries
    /\ [](predictions.status = "ok" =>
            /\ NeedsFallback(es_model, ts_call.es) =>
                  predictions.es = prices.values[Len(prices.values)]
            /\ NeedsFallback(arima_model, ts_call.arima) =>
                  predictions.arima = prices.values[Len(prices.values)])
    /\ []((~prices.given /\ predictions.status # "none") =>
             predictions.status = "raised")
    /\ [][\A series \in PriceSeries, es_ok \in BOOLEAN, arima_ok \in BOOLEAN :
             TsTrainOn(series, es_ok, arima_ok) =>
                /\ prices'.given /\ prices'.values = series
                /\ es_model' = (IF es_ok THEN FittedOn(series) ELSE NoModel)
                /\ arima_model' = (IF arima_ok THEN FittedOn(series) ELSE NoModel)
         ]_vars

\* the latest train fitted exponential smoothing on a falling series and its
\* ARIMA fit failed; predict fell back to the last price of that series
C28_Witness ==
    /\ prices.given /\ prices.values = <<104, 100>>
    /\ es_model = FittedOn(<<104, 100>>)
    /\ arima_model = NoModel
    /\ predictions.status = "ok"
    /\ predictions.arima = 100

\* the numbers of indicators that vote bullish and that vote bearish
C29_Bullish(ind) ==
    Vote(ind.rsi.signal = "oversold") + Vote(ind.macd.trend = "bullish")
      + Vote(ind.bollingerBands.position = "below")
      + Vote(ind.movingAverages.trend = "bullish")
      + Vote(ind.stochastic.signal = "oversold") + Vote(ind.vwap.position = "above")
      + Vote(ind.adx.trend \in {"strong_uptrend", "uptrend"})
      + Vote(ind.williamsR.signal = "oversold") + Vote(ind.cci.signal = "oversold")

C29_Bearish(ind) ==
    Vote(ind.rsi.signal = "overbought") + Vote(ind.macd.trend = "bearish")
      + Vote(ind.bollingerBands.position = "above")
      + Vote(ind.movingAverages.trend = "bearish")
      + Vote(ind.stochastic.signal = "overbought") + Vote(ind.vwap.position = "below")
      + Vote(ind.adx.trend \in {"strong_downtrend", "downtrend"})
      + Vote(ind.williamsR.signal = "overbought") + Vote(ind.cci.signal = "overbought")

\* C29: for every combination of the nine signals the overall signal is buy
\* or strong_buy only when more indicators vote bullish than bearish, and
\* sell or strong_sell only when more vote bearish than bullish
C29_SignalFollowsMajority ==
    ti_fn = "_calculate_overall_signal" =>
        LET bullish == C29_Bullish(ti_out.out.indicators)
            bearish == C29_Bearish(ti_out.out.indicators)
            signal == ti_out.out.overallSignal
        IN  /\ signal \in {"buy", "strong_buy"} => bullish > bearish
            /\ signal \in {"sell", "strong_sell"} => bearish > bullish

\* C30: when fewer than 250 bars were fetched the predict endpoint answers
\* with HTTP 400 and the insufficient-data detail, not with a 500
C30_InsufficientDataIs400 ==
    (request.made /\ request.fetched.status = "returned"
        /\ request.fetched.rows < MinPredictBars) =>
        /\ response.status_code = 400
        /\ response.detail = <<"Insufficient data">>

====
